---- MODULE Spec2Model ----
(***************************************************************************)
(* Lenia simulation engine (class Lenia, src/unnamed/part_002) and the     *)
(* three-species ecosystem engine (class LeniaEcosystem,                   *)
(* src/unnamed/part_005), with the preset gallery that feeds               *)
(* setParameters (src/presets.js).                                         *)
(*                                                                         *)
(* Numbers.  TLA+ has integers only, so every real of the program is kept  *)
(* in fixed point:                                                         *)
(*   R, T, timeScale, distances, normalised x/y .... thousandths  (milli)  *)
(*   mu, sigma, potentials U, shader colour values .. millionths  (micro)  *)
(*   kernel weights ................................. thousandths          *)
(*   growth values and exp() ........................ ten-thousandths      *)
(*   texels ......................................... bytes 0..255, as the *)
(*   RGBA/UNSIGNED_BYTE textures store them.                               *)
(***************************************************************************)
EXTENDS Integers, Sequences, FiniteSets, TLC

\* ------------------------------------------------------------------ bounds
\* Side lengths of the simulated field (this.width, this.height) when the
\* canvas is not zero-sized.
FieldW == 3
FieldH == 3
\* Number of step() calls explored.
MaxTicks == 2
\* Number of calls explored besides step(): field edits (paint, spawnCreature,
\* randomize, clear) and parameter operations (setParameters, toggleMutation,
\* mutate, species selection, preset load).
MaxOps == 2

\* --------------------------------------------------------- fixed-point units
\* Units of the model's arithmetic, not quantities of the program.
Milli == 10 * 100
Micro == Milli * Milli
ExpScale == 10 * Milli
\* Largest value of a texel / Uint8Array element.
ByteMax == 255

Abs(x) == IF x < 0 THEN -x ELSE x
Min(a, b) == IF a < b THEN a ELSE b
Max(a, b) == IF a > b THEN a ELSE b

\* Division of reals rounds to nearest in this model; b may be negative.
RDiv(a, b) ==
    LET q == (2 * Abs(a) + Abs(b)) \div (2 * Abs(b))
    IN  IF (a < 0) = (b < 0) THEN q ELSE -q

\* Math.floor of a fixed-point value with the given scale.
Floor(x, scale) == x \div scale

\* GLSL clamp(x, lo, hi) and Math.max(lo, Math.min(hi, x)).
Clamp(x, lo, hi) == Max(lo, Min(hi, x))

\* ------------------------------------------------------------ Math.sqrt, exp
RECURSIVE IsqrtIn(_, _, _)
IsqrtIn(n, lo, hi) ==
    IF lo >= hi THEN lo
    ELSE LET mid == (lo + hi + 1) \div 2
         IN  IF mid * mid <= n THEN IsqrtIn(n, mid, hi) ELSE IsqrtIn(n, lo, mid - 1)

\* Largest squared integer distance whose square root the model takes
\* (the 64 x 64 creature pattern: 32^2 + 32^2).
MaxDistSq == 2 * 32 * 32

\* Math.sqrt / GLSL sqrt of an integer d2 = dx*dx + dy*dy, tabulated.
\* <<F(lo), ..., F(hi)>>, built by halving.
RECURSIVE Tabulate(_, _, _)
Tabulate(F(_), lo, hi) ==
    IF lo > hi THEN <<>>
    ELSE IF lo = hi THEN <<F(lo)>>
    ELSE LET mid == (lo + hi) \div 2
         IN  Tabulate(F, lo, mid) \o Tabulate(F, mid + 1, hi)

\* Element d2 + 1 is sqrt(d2) in thousandths.
SqrtMilli == Tabulate(LAMBDA d2 : IsqrtIn(d2 * Micro, 0, 46340), 0, MaxDistSq)

\* exp(-n) for n = 0, 1, 2, ... in ten-thousandths; 0 from n = 10 on.
ExpNegInt == <<10000, 3679, 1353, 498, 183, 67, 25, 9, 3, 1>>

\* exp(-f) for 0 <= f < 1 (f in thousandths) by its Taylor series, in
\* ten-thousandths.
RECURSIVE ExpNegFrac(_, _, _, _)
ExpNegFrac(f, n, term, acc) ==
    IF n > 8 \/ term = 0 THEN acc
    ELSE LET next == (term * f) \div (n * Milli)
         IN  ExpNegFrac(f, n + 1, next,
                        IF n % 2 = 1 THEN acc - next ELSE acc + next)

\* exp(-x) for x >= 0 in thousandths; result in ten-thousandths.
ExpNeg(x) ==
    LET n == x \div Milli
        f == x % Milli
    IN  IF n >= Len(ExpNegInt) THEN 0
        ELSE (ExpNegInt[n + 1] * ExpNegFrac(f, 1, ExpScale, ExpScale)) \div ExpScale

\* x mod n for any integer x (n > 0).
Mod(x, n) == ((x % n) + n) % n

\* ------------------------------------------------------------------ the field
\* Texel coordinates of a width x height texture.
Cells(w, h) == (0..(w - 1)) \X (0..(h - 1))

\* A texel holds the r, g, b bytes (alpha is never read by the simulation).
Texel(r, g, b) == <<r, g, b>>
Grey(v) == Texel(v, v, v)

\* gl.texImage2D(..., null) and new Uint8Array(n): all zero.
BlankTexture(w, h) == [c \in Cells(w, h) |-> Grey(0)]

\* Storing a number into a Uint8Array element: truncate, then modulo 256.
\* v is in thousandths.
ToUint8(v) ==
    LET t == IF v >= 0 THEN v \div Milli ELSE -((-v) \div Milli)
    IN  Mod(t, ByteMax + 1)

\* A colour value in [0,1] (micro) written to an UNSIGNED_BYTE colour
\* attachment: clamped to [0,1] and rounded to the nearest of 256 levels.
FramebufferStore(v) == (Clamp(v, 0, Micro) * ByteMax + Micro \div 2) \div Micro

\* A byte read through texture2D(): value / 255, in micro.
TexelValue(b) == (b * Micro) \div ByteMax

\* texture2D() with TEXTURE_WRAP_S/T = REPEAT (Lenia.createTexture): the
\* coordinate wraps modulo the texture size.
WrapRepeat(i, n) == Mod(i, n)

\* texture2D() with TEXTURE_WRAP_S/T = CLAMP_TO_EDGE
\* (LeniaEcosystem.createTexture): the coordinate is clamped to the edge texel.
WrapClampToEdge(i, n) == Clamp(i, 0, n - 1)

\* The texel index texture2D() reads for index i of n under a wrap mode.
\* "TORUS" is the reference addressing ((x + dx) mod W) that the properties
\* compare the engines' modes with.
WrapCoord(wrap, i, n) ==
    CASE wrap = "REPEAT" -> WrapRepeat(i, n)
      [] wrap = "CLAMP_TO_EDGE" -> WrapClampToEdge(i, n)
      [] wrap = "TORUS" -> Mod(i, n)

\* -------------------------------------------------- SIMULATION_SHADER (part_002)
\* Fixed loop bound of the convolution loops: dy, dx from -12 to 12.
LoopBound == 12

\* A kernel that falls linearly from 1 at the centre to 0 at the radius.
kernelCone(r) == Milli - r

\* kernel(r): kr = 4 r (1 - r); kr * kr.  r and the result in thousandths.
kernel(r) ==
    LET kr == (4 * r * (Milli - r)) \div Milli
    IN  (kr * kr) \div Milli

\* growth(u): 2 exp(-diff^2 / 2) - 1 with diff = (u - mu) / sigma.
\* u, mu, sigma in micro; result in ten-thousandths.  Beyond 10 sigma the
\* exponential is below every representable colour step and taken as 0.
growth(u, mu, sigma) ==
    LET diff == RDiv((u - mu) * Milli, sigma)
    IN  IF Abs(u - mu) >= 10 * Abs(sigma) THEN -ExpScale
        ELSE 2 * ExpNeg((diff * diff) \div (2 * Milli)) - ExpScale

\* The test "if (dist > u_R) continue" for an offset at squared distance d2:
\* TRUE when the offset is sampled.  Exact for R in thousandths:
\* dist <= R  iff  R >= 0 and d2 <= R^2.
InRadius(d2, R) == R >= 0 /\ d2 * Micro <= R * R

\* Kernel weights of one radius by squared distance (the weight depends on
\* the offset only through dx^2 + dy^2): a sequence whose element d2 + 1 is
\* the weight k added for an offset at squared distance d2, 0 when the offset
\* is skipped.
KernelTable(R, bound) ==
    Tabulate(LAMBDA d2 :
               IF InRadius(d2, R) /\ R > 0
               THEN kernel(Min(Milli, RDiv(SqrtMilli[d2 + 1] * Milli, R)))
               ELSE 0,
             0, 2 * bound * bound)

\* F(lo) \o ... \o F(hi) for sequences F(i), built by halving.
RECURSIVE Flatten(_, _, _)
Flatten(F(_), lo, hi) ==
    IF lo > hi THEN <<>>
    ELSE IF lo = hi THEN F(lo)
    ELSE LET mid == (lo + hi) \div 2
         IN  Flatten(F, lo, mid) \o Flatten(F, mid + 1, hi)

\* Index of cell c in a row-major sequence over a texture of width w.
CellIndex(c, w) == c[2] * w + c[1] + 1

\* The two nested loops "for dy = -bound..bound, for dx = -bound..bound" of a
\* convolution, regrouped for the fragment at cell c: every visited offset
\* (dx, dy) reads the texel the wrap mode makes of c + (dx, dy) and weighs it
\* by its squared distance alone, so the loop's sum is a sum over the texels
\* read, each with the squared distances of the offsets that read it and the
\* number of offsets at each distance.
LoopOffsets(bound) == (-bound..bound) \X (-bound..bound)

DistSq(o) == o[1] * o[1] + o[2] * o[2]

\* Offsets the loops visit and do not skip for radius R.
SampledOffsets(R, bound) == {o \in LoopOffsets(bound) : InRadius(DistSq(o), R)}

\* The squared distances of a set of offsets with the number of offsets at
\* each (dists is the set of their squared distances), ascending.
ReadGroups(reads, dists, bound) ==
    Flatten(LAMBDA d2 :
              IF d2 \notin dists THEN <<>>
              ELSE <<[d2 |-> d2,
                      count |-> Cardinality({o \in reads : DistSq(o) = d2})]>>,
            0, 2 * bound * bound)

\* Offsets of the loop at which the fragment at cell c reads texel s.
LoopReads(c, s, bound, w, h, wrap) ==
    {dx \in -bound..bound : WrapCoord(wrap, c[1] + dx, w) = s[1]}
        \X {dy \in -bound..bound : WrapCoord(wrap, c[2] + dy, h) = s[2]}

\* The cell of row-major index i in a texture of width w.
CellAt(i, w) == <<(i - 1) % w, (i - 1) \div w>>

\* For the fragment at cell c: per texel of the w x h texture (row-major),
\* the ReadGroups of the offsets that read it.
LoopGroups(c, bound, w, h, wrap) ==
    Tabulate(LAMBDA i :
               LET reads == LoopReads(c, CellAt(i, w), bound, w, h, wrap)
               IN  ReadGroups(reads, {DistSq(o) : o \in reads}, bound),
             1, w * h)

\* LoopGroups of every cell of a w x h texture, row-major.
LoopTable(bound, w, h, wrap) ==
    Tabulate(LAMBDA i : LoopGroups(CellAt(i, w), bound, w, h, wrap), 1, w * h)

\* Sum of F(i) for i = lo..hi, by halving.
RECURSIVE SumRange(_, _, _)
SumRange(F(_), lo, hi) ==
    IF lo > hi THEN 0
    ELSE IF lo = hi THEN F(lo)
    ELSE LET mid == (lo + hi) \div 2
         IN  SumRange(F, lo, mid) + SumRange(F, mid + 1, hi)

\* The squared distances of all offsets of the loop with their counts.
LoopDistances(bound) ==
    ReadGroups(LoopOffsets(bound), {DistSq(o) : o \in LoopOffsets(bound)}, bound)

\* kernelSum += k over the offsets grouped in dists (all offsets of the loop
\* for kernelSum itself; the offsets that read one texel for the weight that
\* texel has in total).  ktab holds the kernel weights by squared distance.
KernelSum(ktab, dists) ==
    SumRange(LAMBDA i : dists[i].count * ktab[dists[i].d2 + 1], 1, Len(dists))

\* Per cell and per texel read, the sum of the weights k of the offsets at
\* which the fragment at the cell reads the texel.
LoopWeights(ktab, loop) ==
    Tabulate(LAMBDA i :
               Tabulate(LAMBDA j : KernelSum(ktab, loop[i][j]), 1, Len(loop[i])),
             1, Len(loop))

\* total += state * k over the loop of one fragment: tex is the texture
\* sampled, ch the channel, weights the fragment's weight per texel, w the
\* texture's width.  Byte x milli.
ConvTotal(tex, ch, weights, w) ==
    SumRange(LAMBDA j : tex[CellAt(j, w)][ch] * weights[j], 1, Len(weights))

\* U = total / max(kernelSum, 0.001), in micro.  total is in byte x milli
\* (texel byte times weight), ksum in thousandths.
Potential(total, ksum) ==
    LET den == Max(ksum, 1)
        q   == total \div den
        rem == total % den
        mb  == q * Milli + (rem * Milli) \div den
    IN  RDiv(mb * 200, 51)

\* The convolution loop of SIMULATION_SHADER on a FieldW x FieldH texture
\* created by Lenia.createTexture (REPEAT), per cell.
LeniaLoop == LoopTable(LoopBound, FieldW, FieldH, "REPEAT")
LeniaDistances == LoopDistances(LoopBound)

\* What the loops of SIMULATION_SHADER accumulate for radius R apart from the
\* texel values: the weights of total per cell and texel, and kernelSum.
SimKernel(R, loop) ==
    LET ktab == KernelTable(R, LoopBound)
    IN  [weights |-> LoopWeights(ktab, loop),
         ksum    |-> KernelSum(ktab, LeniaDistances)]

\* The potential U of the fragment at cell c in SIMULATION_SHADER.
SimPotential(tex, c, k) ==
    Potential(ConvTotal(tex, 1, k.weights[CellIndex(c, FieldW)], FieldW), k.ksum)

\* SimFragment without the clamp of the new state.
SimFragmentUnclamped(tex, c, u, k) ==
    LET G == growth(SimPotential(tex, c, k), u.mu, u.sigma)
        newState == TexelValue(tex[c][1]) + 100 * RDiv(G * u.dt, u.T)
    IN  RDiv(newState * u.trail, Milli)

\* SimFragment without the trail factor.
SimFragmentUntrailed(tex, c, u, k) ==
    LET G == growth(SimPotential(tex, c, k), u.mu, u.sigma)
    IN  Clamp(TexelValue(tex[c][1]) + 100 * RDiv(G * u.dt, u.T), 0, Micro)

\* main() of SIMULATION_SHADER for the fragment at cell c: the new state
\* written to gl_FragColor, in micro.  tex is the texture bound to u_state,
\* u the uniforms, k the SimKernel of u.R on the texture.
SimFragment(tex, c, u, k) ==
    LET U == SimPotential(tex, c, k)
        G == growth(U, u.mu, u.sigma)
        currentState == TexelValue(tex[c][1])
        newState == Clamp(currentState + 100 * RDiv(G * u.dt, u.T), 0, Micro)
    IN  RDiv(newState * u.trail, Milli)

\* One draw of the simulation program over the whole framebuffer:
\* gl_FragColor = vec4(newState, newState, newState, 1.0) per cell.
SimDraw(tex, u, k) ==
    [c \in DOMAIN tex |-> Grey(SimFragment(tex, c, u, k))]

\* The potentials U of all fragments of one draw.
SimPotentials(tex, k) ==
    [c \in DOMAIN tex |-> SimPotential(tex, c, k)]

\* The colour attachment after a draw: each component of gl_FragColor stored
\* as a byte.
StoreColors(colors) ==
    [c \in DOMAIN colors |->
        Texel(FramebufferStore(colors[c][1]), FramebufferStore(colors[c][2]),
              FramebufferStore(colors[c][3]))]

\* --------------------------------------- ECOSYSTEM_SIMULATION_SHADER (part_005)
\* Fixed loop bound of the ecosystem's convolution loops: dy, dx from -15 to 15.
EcoLoopBound == 15

\* ECOSYSTEM_SPECIES: <<prey, predator, apex>> per parameter.
EcosystemSpecies ==
    [R     |-> <<10000, 12000, 14000>>,
     T     |-> <<15000, 20000, 25000>>,
     mu    |-> <<140000, 130000, 120000>>,
     sigma |-> <<15000, 12000, 10000>>]

\* this.predationStrength = 0.15, this.benefitStrength = 0.12 and
\* this.timeScale = 0.5 of LeniaEcosystem, in thousandths.
PredationStrength == 150
BenefitStrength == 120
EcoTimeScale == 500

\* Kernel weights of one ecosystem species by squared distance: the loop
\* skips dist < 0.5 (the centre) and adds k when dist <= R.
EcoKernelTable(R, bound) == [KernelTable(R, bound) EXCEPT ![1] = 0]

\* x * k for a colour value x (micro) and a factor k in thousandths.
Scale(x, k) == RDiv(x * k, Milli)

\* a * b for two values in micro.
MulMicro(a, b) == RDiv(a * RDiv(b, Milli), Milli)

\* GLSL smoothstep(edge0, edge1, x), all in micro.
Smoothstep(edge0, edge1, x) ==
    LET t  == RDiv(Clamp(x - edge0, 0, edge1 - edge0) * Milli, (edge1 - edge0) \div Milli)
        tm == RDiv(t, Milli)
    IN  ((tm * tm) \div Milli) * (3 * Milli - 2 * tm)

\* The convolution loop of ECOSYSTEM_SIMULATION_SHADER on a FieldW x FieldH
\* texture created by LeniaEcosystem.createTexture (CLAMP_TO_EDGE), per cell.
EcoLoop == LoopTable(EcoLoopBound, FieldW, FieldH, "CLAMP_TO_EDGE")
EcoDistances == LoopDistances(EcoLoopBound)

\* What the loops of the ecosystem shader accumulate for the radii R of the
\* three species apart from the texel values: per species the weights of
\* totals per cell and texel, and kernelSums.
EcoKernel(R, loop) ==
    LET ktabs == [i \in 1..3 |-> EcoKernelTable(R[i], EcoLoopBound)]
    IN  [weights |-> <<LoopWeights(ktabs[1], loop), LoopWeights(ktabs[2], loop),
                       LoopWeights(ktabs[3], loop)>>,
         ksums   |-> <<KernelSum(ktabs[1], EcoDistances),
                       KernelSum(ktabs[2], EcoDistances),
                       KernelSum(ktabs[3], EcoDistances)>>]

\* vec3 U = totals / max(kernelSums, 0.001) of the fragment at cell c.
EcoPotential(tex, c, k) ==
    LET i == CellIndex(c, FieldW)
    IN  <<Potential(ConvTotal(tex, 1, k.weights[1][i], FieldW), k.ksums[1]),
          Potential(ConvTotal(tex, 2, k.weights[2][i], FieldW), k.ksums[2]),
          Potential(ConvTotal(tex, 3, k.weights[3][i], FieldW), k.ksums[3])>>

\* INTERACTION_MATRIX: row i holds the effects of prey, predator and apex on
\* species i (1 prey, 2 predator, 3 apex), in thousandths.
INTERACTION_MATRIX ==
    <<<<0, -300, 0>>, <<200, 0, -300>>, <<0, 150, 0>>>>

\* Interaction terms in which the eater loses and the eaten gains.
InteractionReversed(i, j, density, u) ==
    CASE i = 1 /\ j = 2 -> MulMicro(Scale(density[2], u.benefit), density[1]) \div 2
      [] i = 2 /\ j = 1 -> -MulMicro(Scale(density[1], u.predation), density[2])
      [] i = 2 /\ j = 3 -> (MulMicro(Scale(density[3], u.benefit), density[2]) * 3) \div 10
      [] i = 3 /\ j = 2 -> -MulMicro(Scale(density[2], u.predation), density[3])
      [] OTHER -> 0

\* The term species j adds to the new value of species i in the fragment
\* shader, from the densities of the fragment's own texel (micro): -preyLoss
\* for (1, 2), predGain for (2, 1), -predLoss for (2, 3), apexGain for
\* (3, 2); the shader has no other term of two densities.
Interaction(i, j, density, u) ==
    CASE i = 1 /\ j = 2 -> -MulMicro(Scale(density[2], u.predation), density[1])
      [] i = 2 /\ j = 1 -> MulMicro(Scale(density[1], u.benefit), density[2]) \div 2
      [] i = 2 /\ j = 3 -> -MulMicro(Scale(density[3], u.predation), density[2])
      [] i = 3 /\ j = 2 -> (MulMicro(Scale(density[2], u.benefit), density[3]) * 3) \div 10
      [] OTHER -> 0

\* main() of ECOSYSTEM_SIMULATION_SHADER for the fragment at cell c:
\* <<newPrey, newPred, newApex>> in micro.  k is the EcoKernel of u.R on the
\* texture.
EcoFragment(tex, c, u, k) ==
    LET density == [i \in 1..3 |-> TexelValue(tex[c][i])]
        U == EcoPotential(tex, c, k)
        G == [i \in 1..3 |-> growth(U[i], u.mu[i], u.sigma[i])]
        crowding == Smoothstep(Micro \div 2, (3 * Micro) \div 2,
                               density[1] + density[2] + density[3]) \div 10
        base == [i \in 1..3 |->
                    density[i] + 100 * RDiv(G[i] * u.dt, u.T[i])
                    - MulMicro(crowding, density[i])]
        newPrey == Clamp(base[1] + Interaction(1, 2, density, u), 0, Micro)
        newPred == Clamp(base[2] + Interaction(2, 1, density, u)
                                 + Interaction(2, 3, density, u), 0, Micro)
        newApex == Clamp(base[3] + Interaction(3, 2, density, u), 0, Micro)
    IN  <<newPrey - RDiv(newPrey * 5, ExpScale),
          newPred - RDiv(newPred * 7, ExpScale),
          newApex - RDiv(newApex * 10, ExpScale)>>

\* One draw of the ecosystem simulation program over the whole framebuffer.
EcoDraw(tex, u, k) ==
    [c \in DOMAIN tex |-> EcoFragment(tex, c, u, k)]

\* The potentials U of all fragments of one ecosystem draw.
EcoPotentials(tex, k) ==
    [c \in DOMAIN tex |-> EcoPotential(tex, c, k)]

\* The uniforms LeniaEcosystem.step() sets on the simulation program.
EcoUniforms(species, dt, predation, benefit) ==
    [R |-> species.R, T |-> species.T, mu |-> species.mu, sigma |-> species.sigma,
     dt |-> dt, predation |-> predation, benefit |-> benefit]

\* ------------------------------------------------------------------ catalog
\* A species as the simulation uses it: R, T in thousandths, mu, sigma in micro.
Params(R, T, mu, sigma) == [R |-> R, T |-> T, mu |-> mu, sigma |-> sigma]

\* const SPECIES = { orbium, geminium, hydrogeminium, scutium, gliderium }.
Catalog ==
    [orbium        |-> Params(10000, 10000, 150000, 17000),
     geminium      |-> Params( 8000, 10000, 140000, 16000),
     hydrogeminium |-> Params(12000, 10000, 120000, 15000),
     scutium       |-> Params(10000,  8000, 160000, 18000),
     gliderium     |-> Params(11000, 12000, 135000, 15000)]

\* PresetGallery.addDefaultPresets: id -> {R, T, mu, sigma}.
DefaultPresets ==
    [glider  |-> Params(12000, 18000, 140000, 15000),
     pulse   |-> Params( 8000, 12000, 180000, 20000),
     chaotic |-> Params(15000,  8000, 120000,  8000),
     stable  |-> Params(10000, 20000, 150000, 12000)]

\* ------------------------------------------------------------------- state
VARIABLES
    engine,         \* the class the page constructs: "Lenia" or "LeniaEcosystem"
    phase,          \* "new", "failed" (the constructor threw) or "running"
    thrown,         \* message of the Error the constructor threw, "" if none
    width, height,  \* this.width, this.height
    textures,       \* this.textures: <<texture 0, texture 1>>
    currentBuffer,  \* this.currentBuffer
    fragColor,      \* gl_FragColor of the last simulation draw, per cell (micro)
    uniforms,       \* uniform values of this.simProgram (0 until first set)
    SPECIES,        \* the global SPECIES table
    currentSpecies, \* this.currentSpecies
    mutationMode,   \* this.mutationMode
    mutatedParams,  \* this.mutatedParams: <<>> for null, else <<record>>
    timeScale,      \* this.timeScale (thousandths)
    trailEnabled,   \* this.trailEnabled
    playing,        \* this.playing
    demoMode,       \* this.demoMode
    audioReactiveEnabled,   \* this.audioReactiveEnabled
    presets,        \* PresetGallery.presets
    storage,        \* localStorage item 'lenia_presets'
    recording,      \* LeniaRecorder.recording
    frames,         \* LeniaRecorder.frames: the frames stored, oldest first
    sinceFrame,     \* performance.now() - LeniaRecorder.lastFrameTime, up to
                    \* frameInterval, in thirds of a millisecond
    recordings,     \* number of recordings started so far
    exports,        \* recordings whose exportGIF() has not ended yet
    isBeat,         \* AudioReactive.isBeat
    sinceBeat,      \* performance.now() - AudioReactive.lastBeatTime in ms, up
                    \* to beatHoldTime + 1
    sincePerturb,   \* performance.now() - this.lastBeatPerturbTime in ms, up
                    \* to 151
    lastOp,         \* the last operation called and its arguments
    ticks,          \* number of step() calls so far
    ops             \* number of other calls so far

fieldVars == <<width, height, textures, currentBuffer, fragColor, uniforms>>
paramVars == <<SPECIES, currentSpecies, mutationMode, mutatedParams>>
flagVars == <<playing, demoMode, audioReactiveEnabled>>
galleryVars == <<presets, storage>>
recorderVars == <<recording, frames, sinceFrame, recordings, exports>>
beatVars == <<isBeat, sinceBeat, sincePerturb>>
auxVars == <<recorderVars, beatVars>>
pageVars == <<engine, phase, thrown, timeScale, trailEnabled, galleryVars,
              auxVars>>
otherVars == <<pageVars, flagVars>>
countVars == <<ticks, ops>>
vars == <<fieldVars, paramVars, otherVars, countVars, lastOp>>

Op(name, args) == [op |-> name, args |-> args]

Tex(i) == textures[i + 1]

\* ------------------------------------------------------- Lenia field edits
\* One gaussian blob of randomize(): centre (cx, cy) in cells, radius in
\* thousandths, maxIntensity in bytes, the per-pixel noise in thousandths.
Blob(cx, cy, radius, maxIntensity, noise) ==
    [cx |-> cx, cy |-> cy, radius |-> radius, maxIntensity |-> maxIntensity,
     noise |-> noise]

\* The body of randomize()'s pixel loop for one blob.
AddBlob(data, blob) ==
    [c \in DOMAIN data |->
        LET dist == SqrtMilli[(c[1] - blob.cx) * (c[1] - blob.cx)
                              + (c[2] - blob.cy) * (c[2] - blob.cy) + 1]
            t == RDiv(dist * Milli, blob.radius)
            intensity == (blob.maxIntensity * ExpNeg((2 * t * t) \div Milli)) \div 10
            value == Clamp(data[c][1] * Milli + intensity + blob.noise,
                           0, ByteMax * Milli)
        IN  IF 2 * dist < 3 * blob.radius THEN Grey(ToUint8(value)) ELSE data[c]]

RECURSIVE AddBlobs(_, _, _)
AddBlobs(data, blob, n) ==
    IF n = 0 THEN data ELSE AddBlobs(AddBlob(data, blob), blob, n - 1)

\* randomize(): the data uploaded to textures[currentBuffer].  numBlobs blobs
\* are drawn; the model draws them all alike.
Randomize(w, h, blob, numBlobs) == AddBlobs(BlankTexture(w, h), blob, numBlobs)

\* paint(): the brush of the given radius (thousandths) and intensity
\* (thousandths of a byte) at normalised position (x, y) (thousandths).
\* The loops run dx and dy from -radius in steps of 1, so every dx and dy has
\* the fractional part g of -radius, and idx = (ny * width + nx) * 4 is the
\* index of cell (floor(nx), floor(ny)) plus 4 * g * (width + 1).
\* PaintShift is that displacement, or -1 when it is not an integer: the
\* stores data[idx] = ... into the Uint8Array then have no effect.
PaintShift(radius, w) ==
    LET g == Mod(-radius, Milli)
    IN  IF (4 * g * (w + 1)) % Milli = 0 THEN (4 * g * (w + 1)) \div Milli
        ELSE -1

\* The data paint() uploads.  Bytes are numbered as in the Uint8Array, four
\* to a cell; the model keeps bytes 0..2 of each cell.  The iteration at cell
\* m (row-major) stores min(255, data[idx] + add) at idx = 4 * m + shift
\* and copies the stored byte to idx + 1 and idx + 2.
Paint(data, w, h, x, y, radius, intensity) ==
    LET px == (x * w) \div Milli
        py == ((Milli - y) * h) \div Milli
        g == Mod(-radius, Milli)
        shift == PaintShift(radius, w)
        Old(i) == data[<<(i \div 4) % w, (i \div 4) \div w>>][(i % 4) + 1]
        Dx(m) == ((m % w) - px) * Milli + g
        Dy(m) == ((m \div w) - py) * Milli + g
        Visited(m) ==
            /\ m >= 0 /\ m < w * h
            /\ Abs(Dx(m)) <= radius /\ Abs(Dy(m)) <= radius
            /\ Dx(m) * Dx(m) + Dy(m) * Dy(m) <= radius * radius
        Stored(m) ==
            LET dist == IsqrtIn(Dx(m) * Dx(m) + Dy(m) * Dy(m), 0, 46340)
                falloff == Milli - RDiv(dist * Milli, radius)
                add == (intensity * ((falloff * falloff) \div Milli)) \div Milli
            IN  ToUint8(Min(ByteMax * Milli, Old(4 * m + shift) * Milli + add))
        New(i) ==
            LET t == Mod(i - shift, 4)
                m == (i - shift - t) \div 4
            IN  IF t <= 2 /\ Visited(m) THEN Stored(m) ELSE Old(i)
    IN  IF shift < 0 THEN data
        ELSE [c \in DOMAIN data |->
                 LET i == 4 * (c[2] * w + c[1])
                 IN  Texel(New(i), New(i + 1), New(i + 2))]

\* Side of the square pattern a creature template generates (patternSize).
PatternSize == 64

\* CREATURE_TEMPLATES.orbium.generate(64) at (sx, sy), in ten-thousandths:
\* exp(-((dist - r2) / (r1 * 0.3))^2) inside radius r1 = 22.4, r2 = 9.6.
OrbiumPattern(sx, sy) ==
    LET dx == sx - PatternSize \div 2
        dy == sy - PatternSize \div 2
        dist == SqrtMilli[dx * dx + dy * dy + 1]
        t == RDiv((dist - 9600) * Milli, 6720)
    IN  IF dist < 22400 THEN ExpNeg((t * t) \div Milli) ELSE 0

Pattern(creature, sx, sy) ==
    IF creature = "orbium" THEN OrbiumPattern(sx, sy) ELSE 0

\* Source coordinates sx of the pattern that land on target column tx:
\* tx = px + floor((sx - patternSize/2) * scale).
SpawnSources(t, p, scale) ==
    {sx \in 0..(PatternSize - 1) :
        p + ((sx - PatternSize \div 2) * scale) \div Milli = t}

\* Largest newVal = min(255, floor(value * 255)) among the source cells that
\* land on cell c and are not skipped (value < 0.01); -1 if there is none.
SpawnValue(creature, c, px, py, scale) ==
    LET vals == {Min(ByteMax, (Pattern(creature, sx, sy) * ByteMax) \div ExpScale) :
                    <<sx, sy>> \in {s \in SpawnSources(c[1], px, scale)
                                          \X SpawnSources(c[2], py, scale) :
                                       Pattern(creature, s[1], s[2]) >= 100}}
    IN  IF vals = {} THEN -1 ELSE CHOOSE v \in vals : \A o \in vals : o <= v

\* A spawnCreature that stores newVal over the cell: data[idx] = newVal.
SpawnCreatureOverwriting(data, w, h, creature, x, y, scale) ==
    LET px == (x * w) \div Milli
        py == ((Milli - y) * h) \div Milli
    IN  [c \in DOMAIN data |->
            LET v == SpawnValue(creature, c, px, py, scale)
            IN  IF v < 0 THEN data[c] ELSE Grey(v)]

\* spawnCreature(creature, x, y, scale): data[idx] = max(data[idx], newVal).
SpawnCreature(data, w, h, creature, x, y, scale) ==
    LET px == (x * w) \div Milli
        py == ((Milli - y) * h) \div Milli
    IN  [c \in DOMAIN data |->
            LET v == SpawnValue(creature, c, px, py, scale)
            IN  IF v < 0 THEN data[c] ELSE Grey(Max(data[c][1], v))]

\* ----------------------------------------------------- ecosystem statistics
\* The loop "for (i = 0; i < data.length; i += 4) prey += data[i]; ..." over
\* the first n cells of the data read back, for channel ch.
RECURSIVE ChannelSum(_, _, _, _)
ChannelSum(data, w, ch, n) ==
    IF n = 0 THEN 0
    ELSE data[<<(n - 1) % w, (n - 1) \div w>>][ch] + ChannelSum(data, w, ch, n - 1)

\* A toFixed that cuts the digits after the fourth instead of rounding.
ToFixed4Cut(sum, pixels) ==
    IF pixels = 0 THEN "NaN" ELSE (sum * ExpScale) \div (pixels * ByteMax)

\* (sum / pixels / 255).toFixed(4): the decimal string with four digits after
\* the point nearest to the quotient, held as its value in ten-thousandths;
\* "NaN" for the 0 / 0 of a field without cells.
ToFixed4(sum, pixels) ==
    IF pixels = 0 THEN "NaN"
    ELSE (2 * sum * ExpScale + pixels * ByteMax) \div (2 * pixels * ByteMax)

\* getPopulationStats(): the record of the three formatted means.
GetPopulationStats(data, w, h) ==
    [prey |-> ToFixed4(ChannelSum(data, w, 1, w * h), w * h),
     predator |-> ToFixed4(ChannelSum(data, w, 2, w * h), w * h),
     apex |-> ToFixed4(ChannelSum(data, w, 3, w * h), w * h)]

\* ---------------------------------------------------- ecosystem field edits
\* The ring-with-core profile of seedEcosystem() and LeniaEcosystem.paint():
\* max(ringVal, coreVal) for a point at distance dist of a cluster of the
\* given outer radius (both in thousandths); result in ten-thousandths.
RingValue(dist, radius) ==
    LET innerR == (radius * 4) \div 10
        ringCenter == (radius * 7) \div 10
        ringWidth == (radius * 3) \div 10
        ringDist == RDiv(Abs(dist - ringCenter) * Milli, ringWidth)
        ringVal == ExpNeg((((ringDist * ringDist) \div Milli) * 3) \div 2)
        t == RDiv(dist * Milli, innerR)
        coreVal == IF dist < innerR THEN ExpNeg((2 * t * t) \div Milli) \div 2 ELSE 0
    IN  Max(ringVal, coreVal)

\* Texel with channel ch (1..3) set to v.
WithChannel(texel, ch, v) == [texel EXCEPT ![ch] = v]

\* One cluster of seedEcosystem() in channel ch: centre (cx, cy) and outerR
\* in thousandths of a cell, noise the per-pixel (Math.random() - 0.5) * 10
\* in thousandths of a byte.  The sum is capped at 255 only from above.
SeedCluster(data, ch, cx, cy, outerR, noise) ==
    [c \in DOMAIN data |->
        LET dx == c[1] * Milli - cx
            dy == c[2] * Milli - cy
            dist == IsqrtIn(dx * dx + dy * dy, 0, 46340)
            intensity == RingValue(dist, outerR) * 20
        IN  IF 10 * dist < 12 * outerR
            THEN WithChannel(data[c], ch,
                     ToUint8(Min(ByteMax * Milli,
                                 data[c][ch] * Milli + intensity + noise)))
            ELSE data[c]]

RECURSIVE SeedClusters(_, _, _, _, _, _, _)
SeedClusters(data, ch, cx, cy, outerR, noise, count) ==
    IF count = 0 THEN data
    ELSE SeedClusters(SeedCluster(data, ch, cx, cy, outerR, noise),
                      ch, cx, cy, outerR, noise, count - 1)

\* seedEcosystem(): three prey clusters around (0.25, 0.5), two predator
\* clusters around (0.5, 0.5), one apex cluster around (0.75, 0.5).  draw
\* holds the Math.random() results (thousandths) for the centre, the radius
\* and the noise; the model draws the clusters of one call alike.
SeedEcosystem(w, h, draw) ==
    LET Cx(region) == w * (region + ((draw.x - 500) * 3) \div 10)
        cy == h * (500 + ((draw.y - 500) * 6) \div 10)
        outerR == 15 * Milli + draw.r * 10
        noise == (draw.noise - 500) * 10
        prey == SeedClusters(BlankTexture(w, h), 1, Cx(250), cy, outerR, noise, 3)
        pred == SeedClusters(prey, 2, Cx(500), cy, outerR, noise, 2)
    IN  SeedClusters(pred, 3, Cx(750), cy, outerR, noise, 1)

\* The channel LeniaEcosystem.paint() writes: { prey: 0, predator: 1,
\* apex: 2 }[species] || 0, as a 1-based index.
PaintChannel(species) ==
    IF species = "predator" THEN 2 ELSE IF species = "apex" THEN 3 ELSE 1

\* LeniaEcosystem.paint(x, y, species, radius, intensity); integer radii.
EcoPaint(data, w, h, x, y, species, radius, intensity) ==
    LET px == (x * w) \div Milli
        py == ((Milli - y) * h) \div Milli
        ch == PaintChannel(species)
    IN  [c \in DOMAIN data |->
            LET dx == c[1] - px
                dy == c[2] - py
                d2 == dx * dx + dy * dy
                dist == SqrtMilli[Min(d2, MaxDistSq) + 1]
                value == (RingValue(dist, radius) * (intensity \div Milli)) \div 10
            IN  IF Abs(dx) * Milli <= radius /\ Abs(dy) * Milli <= radius
                   /\ d2 * Micro <= radius * radius
                THEN WithChannel(data[c], ch,
                         ToUint8(Min(ByteMax * Milli, data[c][ch] * Milli + value)))
                ELSE data[c]]

\* ------------------------------------------------- Lenia parameter operations
\* this.mutationSpeed = 0.0005, in micro.
MutationSpeed == 500

\* Values Math.random() takes in the model, in thousandths.
RandomValues == {0, 999}

\* The four draws of one mutate() call in the model.
RandomDraws == {<<0, 0, 0, 0>>, <<999, 999, 999, 999>>}

\* The draws a step() makes: those of mutate() in mutation mode, none
\* otherwise (one element stands for none).
StepDraws(mode) == IF mode THEN RandomDraws ELSE {<<0, 0, 0, 0>>}

\* MutateWalk without the bounds.
MutateWalkUnclamped(q, rnd) ==
    Params(q.R + RDiv((rnd[1] - 500) * MutationSpeed, 10 * Milli),
           q.T + RDiv((rnd[2] - 500) * MutationSpeed, 10 * Milli),
           q.mu + RDiv((rnd[3] - 500) * MutationSpeed, Milli),
           q.sigma + RDiv((rnd[4] - 500) * MutationSpeed, 10 * Milli))

\* One bounded random-walk step of mutate() on working copy p; rnd holds the
\* four Math.random() results.
\*   R, T:  += (rnd - 0.5) * speed * 100, clamped to [5, 20]
\*   mu:    += (rnd - 0.5) * speed,       clamped to [0.05, 0.3]
\*   sigma: += (rnd - 0.5) * speed * 0.1, clamped to [0.005, 0.05]
MutateWalk(q, rnd) ==
    Params(Clamp(q.R + RDiv((rnd[1] - 500) * MutationSpeed, 10 * Milli), 5000, 20000),
           Clamp(q.T + RDiv((rnd[2] - 500) * MutationSpeed, 10 * Milli), 5000, 20000),
           Clamp(q.mu + RDiv((rnd[3] - 500) * MutationSpeed, Milli), 50000, 300000),
           Clamp(q.sigma + RDiv((rnd[4] - 500) * MutationSpeed, 10 * Milli), 5000, 50000))

\* mutate(): returns at once when mutatedParams is null.
Mutated(mp, rnd) == IF mp = <<>> THEN mp ELSE <<MutateWalk(mp[1], rnd)>>

\* ToggledParams that keeps a working copy when mutation is toggled off.
ToggledParamsKept(mode, species) ==
    <<Params(species.R, species.T, species.mu, species.sigma)>>

\* ToggledParams that never builds a working copy.
ToggledParamsNull(mode, species) == <<>>

\* toggleMutation(): the value of this.mutatedParams after the toggle; mode
\* is the new mutationMode.  The working copy is a fresh object holding
\* copies of the numbers of the current species.
ToggledParams(mode, species) ==
    IF mode THEN <<Params(species.R, species.T, species.mu, species.sigma)>>
    ELSE <<>>

\* JavaScript's a || b on numbers: b when a is 0 (or NaN), else a.
OrElse(a, b) == IF a = 0 THEN b ELSE a

\* CustomSpecies that ignores the record passed.
CustomSpeciesFromBase(params, base) == base

\* setParameters(): the customSpecies object built from params and the
\* current species.
CustomSpecies(params, base) ==
    Params(OrElse(params.R, base.R), OrElse(params.T, base.T),
           OrElse(params.mu, base.mu), OrElse(params.sigma, base.sigma))

\* StepParams that takes the species whatever the working copy.
StepParamsOfSpecies(mp, species) == species

\* step(): const params = this.mutatedParams || species.
StepParams(mp, species) == IF mp # <<>> THEN mp[1] ELSE species

\* NextBuffer that renders into the buffer being read.
NextBufferSame(cur) == cur

\* step(): const nextBuffer = 1 - this.currentBuffer.
NextBuffer(cur) == 1 - cur

\* this.trailAmount = 0.95, in thousandths.
TrailAmount == 950

\* The uniforms step() sets on the simulation program.
StepUniforms(q, dt, trail) ==
    [R |-> q.R, T |-> q.T, mu |-> q.mu, sigma |-> q.sigma, dt |-> dt,
     trail |-> IF trail THEN TrailAmount ELSE Milli]

NoUniforms == [R |-> 0, T |-> 0, mu |-> 0, sigma |-> 0, dt |-> 0, trail |-> 0]

\* ---------------------------------------------------------------- inputs
\* Blobs randomize() draws in the model.
RandomBlobs == {Blob(FieldW - 1, FieldH - 1, 40000, 254, 14000)}

\* paint() calls of the page: <<radius, intensity>> in thousandths:
\* paint(x, y) and paint(x, y, 15, 150).
PaintBrushes == {<<20000, 200000>>}

\* Normalised positions of paint and spawn calls, in thousandths.
Positions == {<<500, 500>>}

\* Records passed to setParameters in the model.
SetParameterArgs ==
    {Params(25000, 8000, 120000, 8000),
     Params(0, -10000, 400000, -15000),
     Params(10000, 10000, 50000, 50000)}

\* Math.random() results of one seedEcosystem() call in the model.
SeedDraws == {[x |-> 0, y |-> 999, r |-> 0, noise |-> 0]}

\* Species painted on the ecosystem in the model.
PaintSpecies == {"prey", "apex"}

\* Preset ids asked for in the model; "nosuch" is stored nowhere.
PresetIds == {"chaotic", "nosuch"}

\* Species buttons pressed in the model.
SpeciesKeys == {"geminium"}

\* ------------------------------------------------------- preset gallery
\* A JSON text: kind "object" for the text of an object, whose members are
\* the <<id, record>> pairs of entries in the order written; kind "null" for
\* the text null; kind "garbage" for text JSON.parse rejects.
JsonText(kind, entries) == [kind |-> kind, entries |-> entries]

\* Order in which the ids of a mapping are written by JSON.stringify in the
\* model.
IdOrder == <<"glider", "pulse", "chaotic", "stable", "mine", "constructor",
             "bulk01", "bulk02", "bulk03", "bulk04", "bulk05", "bulk06",
             "bulk07", "bulk08", "bulk09", "bulk10", "bulk11", "bulk12",
             "bulk13", "bulk14", "bulk15", "bulk16">>

\* Property names every object inherits from Object.prototype, among the ids
\* of the model.
PrototypeKeys == {"constructor"}

\* Whether mapping[id] is truthy: an own property holding a preset record, or
\* a property inherited from Object.prototype.
Truthy(mapping, id) == id \in DOMAIN mapping \/ id \in PrototypeKeys

\* Ids among the first n of IdOrder that the mapping holds, in that order.
RECURSIVE OwnKeys(_, _)
OwnKeys(mapping, n) ==
    IF n = 0 THEN <<>>
    ELSE IF IdOrder[n] \in DOMAIN mapping
         THEN Append(OwnKeys(mapping, n - 1), IdOrder[n])
         ELSE OwnKeys(mapping, n - 1)

\* JSON.stringify(this.presets, null, 2).
Stringify(mapping) ==
    LET keys == OwnKeys(mapping, Len(IdOrder))
    IN  JsonText("object", [i \in 1..Len(keys) |-> <<keys[i], mapping[keys[i]]>>])

\* JSON.parse(jsonString) of an object text: a member written again replaces
\* the earlier one.  (Of text "null" the result is null, which has no
\* properties to spread.)
Parse(text) ==
    LET ids == {text.entries[i][1] : i \in 1..Len(text.entries)}
        Last(id) == CHOOSE i \in 1..Len(text.entries) :
                       /\ text.entries[i][1] = id
                       /\ \A j \in (i + 1)..Len(text.entries) :
                             text.entries[j][1] # id
    IN  [id \in ids |-> text.entries[Last(id)][2]]

\* A spread that lets the properties of the first object win.
SpreadKeeping(base, over) ==
    [id \in DOMAIN base \cup DOMAIN over |->
        IF id \in DOMAIN base THEN base[id] ELSE over[id]]

\* { ...base, ...over }.
Spread(base, over) ==
    [id \in DOMAIN base \cup DOMAIN over |->
        IF id \in DOMAIN over THEN over[id] ELSE base[id]]

\* this.maxPresets.
MaxPresets == 20

\* ------------------------------------------------------------------ Init
\* The page before DOMContentLoaded: the global tables exist, no engine yet.
\* The engine fields hold the values the constructor gives them first.
Init ==
    /\ engine \in {"Lenia", "LeniaEcosystem"}
    /\ phase = "new"
    /\ thrown = ""
    /\ width = 0
    /\ height = 0
    /\ textures = <<BlankTexture(0, 0), BlankTexture(0, 0)>>
    /\ currentBuffer = 0
    /\ fragColor = BlankTexture(0, 0)
    /\ uniforms = NoUniforms
    /\ SPECIES = Catalog
    /\ currentSpecies = "orbium"
    /\ mutationMode = FALSE
    /\ mutatedParams = <<>>
    /\ timeScale = Milli
    /\ trailEnabled = FALSE
    /\ playing = TRUE
    /\ demoMode = FALSE
    /\ audioReactiveEnabled = FALSE
    /\ presets = DefaultPresets
    /\ storage = Stringify(DefaultPresets)
    /\ recording = FALSE
    /\ frames = <<>>
    /\ sinceFrame = 0
    /\ recordings = 0
    /\ exports = {}
    /\ isBeat = FALSE
    /\ sinceBeat = 0
    /\ sincePerturb = 0
    /\ lastOp = Op("load", <<>>)
    /\ ticks = 0
    /\ ops = 0

\* resize(): Math.floor(clientWidth * dpr * 0.5) with devicePixelRatio 1.
Resized(client) == client \div 2

\* ------------------------------------------------------------- construction
\* The canvas and context a constructor meets.  gl: getContext returned a
\* context; compiled, linked: the shaders compile and the programs link;
\* w, h: clientWidth and clientHeight.
Canvas(gl, compiled, linked, w, h) ==
    [gl |-> gl, compiled |-> compiled, linked |-> linked, w |-> w, h |-> h]

\* The Error a constructor throws on this canvas, "" when it returns.
ThrownBy(canvas, linkMessage) ==
    IF ~canvas.gl THEN "WebGL not supported"
    ELSE IF ~canvas.compiled THEN "Shader compilation failed"
    ELSE IF ~canvas.linked THEN linkMessage
    ELSE ""

\* The part of constructing an engine both classes share: the constructor
\* throws, or resize() sets the field size and the engine starts to animate.
Constructed(canvas, linkMessage, dt, data) ==
    /\ phase = "new"
    /\ lastOp' = Op("new", canvas)
    /\ thrown' = ThrownBy(canvas, linkMessage)
    /\ IF thrown' # ""
       THEN /\ phase' = "failed"
            /\ UNCHANGED <<width, height, textures, timeScale>>
       ELSE /\ phase' = "running"
            /\ width' = Resized(canvas.w)
            /\ height' = Resized(canvas.h)
            /\ timeScale' = dt
            /\ textures' = <<data, BlankTexture(width', height')>>
    /\ UNCHANGED <<currentBuffer, fragColor, uniforms, paramVars, engine,
                   trailEnabled, galleryVars, auxVars, flagVars, countVars>>

\* new Lenia(canvas) in the DOMContentLoaded handler, followed by
\* lenia.animate() when the constructor returns.  init() ends with
\* randomize().
Construct(canvas, blob, numBlobs) ==
    /\ engine = "Lenia"
    /\ Constructed(canvas, "Shader program linking failed", Milli,
                   Randomize(Resized(canvas.w), Resized(canvas.h), blob, numBlobs))

\* new LeniaEcosystem(canvas) followed by animate().  init() ends with
\* seedEcosystem().
EcoConstruct(canvas, draw) ==
    /\ engine = "LeniaEcosystem"
    /\ Constructed(canvas, "Program linking failed", EcoTimeScale,
                   SeedEcosystem(Resized(canvas.w), Resized(canvas.h), draw))

\* ------------------------------------------------- kernels, tabulated
\* Radii reached from the radii in S by at most n mutate() calls.
RECURSIVE WalkedRadii(_, _)
WalkedRadii(S, n) ==
    IF n = 0 THEN S
    ELSE WalkedRadii(S \cup {MutateWalk(Params(R, R, 0, 0), rnd).R :
                                R \in S, rnd \in RandomDraws}, n - 1)

\* The radii of the catalog, of the default presets and of the setParameters
\* calls of the model, and those mutation reaches from them.
StepRadii ==
    WalkedRadii({R \in {Catalog[key].R : key \in DOMAIN Catalog}
                       \cup {DefaultPresets[id].R : id \in DOMAIN DefaultPresets}
                       \cup {params.R : params \in SetParameterArgs} : R > 0},
                MaxTicks + MaxOps)

\* SimKernel on the engine's texture for the radii of StepRadii, computed
\* once.
SimKernels == [R \in StepRadii |-> SimKernel(R, LeniaLoop)] @@ <<>>

\* The SimKernel of a step() with u_R = R.
StepKernel(R) == IF R \in StepRadii THEN SimKernels[R] ELSE SimKernel(R, LeniaLoop)

\* EcoKernel on the ecosystem's texture for the radii of ECOSYSTEM_SPECIES,
\* computed once.
EcoSpeciesKernel == EcoKernel(EcosystemSpecies.R, EcoLoop)

\* The EcoKernel of a step() with u_R = R.
EcoStepKernel(R) ==
    IF R = EcosystemSpecies.R THEN EcoSpeciesKernel ELSE EcoKernel(R, EcoLoop)

\* ------------------------------------------------------------ Lenia: step()
IsLenia == engine = "Lenia" /\ phase = "running"

Step(rnd) ==
    /\ IsLenia
    /\ ticks < MaxTicks
    /\ rnd \in StepDraws(mutationMode)
    /\ ticks' = ticks + 1
    /\ lastOp' = Op("step", <<>>)
    /\ mutatedParams' = IF mutationMode THEN Mutated(mutatedParams, rnd)
                         ELSE mutatedParams
    /\ uniforms' = StepUniforms(StepParams(mutatedParams', SPECIES[currentSpecies]),
                                timeScale, trailEnabled)
    /\ fragColor' = SimDraw(Tex(currentBuffer), uniforms', StepKernel(uniforms'.R))
    /\ textures' = [textures EXCEPT ![NextBuffer(currentBuffer) + 1] =
                       StoreColors(fragColor')]
    /\ currentBuffer' = NextBuffer(currentBuffer)
    /\ UNCHANGED <<width, height, SPECIES, currentSpecies, mutationMode,
                   otherVars, ops>>

\* ---------------------------------------------------------- Lenia: animate()
\* What one animate() frame draws from Math.random() and the audio analyser:
\* demoPaint, runDemo()'s "Math.random() < 0.02" perturbation; beat, the
\* beat perturbation of applyAudioEffects() (hasBeat() and more than 150 ms
\* since the last one); subtle, its "Math.random() < bass * 0.3"; bass,
\* getBass() in thousandths; pos, the position drawn for the paints.
Frame(demoPaint, beat, subtle, bass, pos) ==
    [demoPaint |-> demoPaint, beat |-> beat, subtle |-> subtle, bass |-> bass,
     pos |-> pos]

\* A frame that loses its paints.
FramePaintedLost(data, w, h, frame, demo, audio) == data

\* The field after runDemo() and applyAudioEffects() of a frame: runDemo()
\* returns at once unless demo is set and paints paint(x, y, 15, 120);
\* applyAudioEffects() returns at once unless audio is set and paints
\* paint(x, y, 20 + bass * 30, 150 + bass * 100) on a beat and
\* paint(x, y, 10, bass * 80) when bass > 0.3 and the draw is below
\* bass * 0.3.  (The timed branches of runDemo() first fire after 3 s of
\* demo mode, 187 frames.)
FramePainted(data, w, h, frame, demo, audio) ==
    LET afterDemo ==
            IF demo /\ frame.demoPaint
            THEN Paint(data, w, h, frame.pos[1], frame.pos[2], 15000, 120000)
            ELSE data
        afterBeat ==
            IF audio /\ frame.beat
            THEN Paint(afterDemo, w, h, frame.pos[1], frame.pos[2],
                       20000 + 30 * frame.bass, 150000 + 100 * frame.bass)
            ELSE afterDemo
    IN  IF audio /\ frame.bass > 300 /\ frame.subtle
        THEN Paint(afterBeat, w, h, frame.pos[1], frame.pos[2], 10000,
                   80 * frame.bass)
        ELSE afterBeat

\* Frames of animate() in the model: a quiet frame, a frame with the demo
\* perturbation, and frames with a beat at bass 0.137 (radius 24.11) and at
\* bass 0.25 (radius 27.5).
Frames ==
    {Frame(FALSE, FALSE, FALSE, 0, <<500, 500>>),
     Frame(TRUE, FALSE, FALSE, 0, <<500, 500>>),
     Frame(FALSE, TRUE, FALSE, 137, <<500, 500>>),
     Frame(FALSE, TRUE, FALSE, 250, <<500, 500>>)}

\* Outcomes of initMicrophone() in the model.
MicrophoneResults == {TRUE}

\* One animate() frame: runDemo(), applyAudioEffects(), step() if playing,
\* render().  render() draws textures[currentBuffer] to the canvas and
\* writes no state of the engine.
AnimateBody(frame, rnd) ==
    /\ IsLenia
    /\ rnd \in StepDraws(mutationMode)
    /\ frame.demoPaint => demoMode
    /\ frame.beat => audioReactiveEnabled
    /\ lastOp' = Op("animate", frame)
    /\ LET painted == FramePainted(Tex(currentBuffer), width, height, frame,
                                   demoMode, audioReactiveEnabled)
       IN  IF playing
           THEN /\ ticks < MaxTicks
                /\ ticks' = ticks + 1
                /\ ops' = ops
                /\ mutatedParams' = IF mutationMode
                                     THEN Mutated(mutatedParams, rnd)
                                     ELSE mutatedParams
                /\ uniforms' = StepUniforms(StepParams(mutatedParams',
                                                       SPECIES[currentSpecies]),
                                            timeScale, trailEnabled)
                /\ fragColor' = SimDraw(painted, uniforms', StepKernel(uniforms'.R))
                /\ textures' = [textures EXCEPT
                                   ![currentBuffer + 1] = painted,
                                   ![NextBuffer(currentBuffer) + 1] =
                                       StoreColors(fragColor')]
                /\ currentBuffer' = NextBuffer(currentBuffer)
           ELSE /\ UNCHANGED countVars
                /\ textures' = [textures EXCEPT ![currentBuffer + 1] = painted]
                /\ UNCHANGED <<currentBuffer, fragColor, uniforms, mutatedParams>>
    /\ UNCHANGED <<width, height, SPECIES, currentSpecies, mutationMode,
                   engine, phase, thrown, timeScale, trailEnabled, galleryVars,
                   recorderVars, flagVars>>

\* An animate() frame whose beat the model draws freely.
Animate(frame, rnd) ==
    /\ AnimateBody(frame, rnd)
    /\ UNCHANGED beatVars

\* ------------------------------------------------------ Lenia: page controls
FlagGuard ==
    /\ IsLenia
    /\ ops < MaxOps
    /\ ops' = ops + 1
    /\ UNCHANGED <<fieldVars, paramVars, pageVars, ticks>>

\* btnPlay click: lenia.playing = !lenia.playing.
TogglePlay ==
    /\ FlagGuard
    /\ lastOp' = Op("togglePlay", <<>>)
    /\ playing' = ~playing
    /\ UNCHANGED <<demoMode, audioReactiveEnabled>>

\* toggleDemo(): entering demo mode also sets playing.
ToggleDemo ==
    /\ FlagGuard
    /\ lastOp' = Op("toggleDemo", <<>>)
    /\ demoMode' = ~demoMode
    /\ playing' = IF demoMode' THEN TRUE ELSE playing
    /\ UNCHANGED audioReactiveEnabled

\* toggleAudio(): switches audio reactivity off, or on when the microphone
\* could be opened (success).
ToggleAudio(success) ==
    /\ FlagGuard
    /\ lastOp' = Op("toggleAudio", success)
    /\ audioReactiveEnabled' = IF audioReactiveEnabled THEN FALSE ELSE success
    /\ UNCHANGED <<playing, demoMode>>

\* -------------------------------------------------------- Lenia: field edits
EditGuard ==
    /\ IsLenia
    /\ ops < MaxOps
    /\ ops' = ops + 1
    /\ UNCHANGED <<width, height, currentBuffer, fragColor, uniforms, paramVars,
                   otherVars, ticks>>

Upload(data) == textures' = [textures EXCEPT ![currentBuffer + 1] = data]

RandomizeCall(blob, numBlobs) ==
    /\ EditGuard
    /\ lastOp' = Op("randomize", <<>>)
    /\ Upload(Randomize(width, height, blob, numBlobs))

\* A clear() that uploads the data it found.
ClearCallKeeping ==
    /\ EditGuard
    /\ lastOp' = Op("clear", <<>>)
    /\ Upload(Tex(currentBuffer))

ClearCall ==
    /\ EditGuard
    /\ lastOp' = Op("clear", <<>>)
    /\ Upload(BlankTexture(width, height))

PaintCall(pos, brush) ==
    /\ EditGuard
    /\ lastOp' = Op("paint", <<pos, brush>>)
    /\ Upload(Paint(Tex(currentBuffer), width, height, pos[1], pos[2],
                    brush[1], brush[2]))

SpawnCall(creature, pos) ==
    /\ EditGuard
    /\ lastOp' = Op("spawnCreature", <<creature, pos>>)
    /\ Upload(SpawnCreature(Tex(currentBuffer), width, height, creature,
                            pos[1], pos[2], Milli))

\* --------------------------------------------------- Lenia: parameter calls
ConfigGuard ==
    /\ IsLenia
    /\ ops < MaxOps
    /\ ops' = ops + 1
    /\ UNCHANGED <<fieldVars, otherVars, ticks>>

\* toggleTrail().
ToggleTrail ==
    /\ IsLenia
    /\ ops < MaxOps
    /\ ops' = ops + 1
    /\ lastOp' = Op("toggleTrail", <<>>)
    /\ trailEnabled' = ~trailEnabled
    /\ UNCHANGED <<fieldVars, paramVars, flagVars, galleryVars, auxVars, engine, phase,
                   thrown, timeScale, ticks>>

ToggleMutation ==
    /\ ConfigGuard
    /\ lastOp' = Op("toggleMutation", <<>>)
    /\ mutationMode' = ~mutationMode
    /\ mutatedParams' = ToggledParams(mutationMode', SPECIES[currentSpecies])
    /\ UNCHANGED <<SPECIES, currentSpecies>>

MutateCall(rnd) ==
    /\ ConfigGuard
    /\ lastOp' = Op("mutate", rnd)
    /\ mutatedParams' = Mutated(mutatedParams, rnd)
    /\ UNCHANGED <<SPECIES, currentSpecies, mutationMode>>

\* setParameters(params): SPECIES['custom'] and currentSpecies are set, and
\* the working copy too while mutation mode is active.
SetParametersBody(params) ==
    LET custom == CustomSpecies(params, SPECIES[currentSpecies])
    IN  /\ SPECIES' = [k \in DOMAIN SPECIES \cup {"custom"} |->
                          IF k = "custom" THEN custom ELSE SPECIES[k]]
        /\ currentSpecies' = "custom"
        /\ mutatedParams' = IF mutationMode /\ mutatedParams # <<>>
                             THEN <<custom>> ELSE mutatedParams
        /\ UNCHANGED mutationMode

SetParameters(params) ==
    /\ ConfigGuard
    /\ lastOp' = Op("setParameters", params)
    /\ SetParametersBody(params)

\* lenia.currentSpecies = key: the assignment of a species button, of the
\* spawn button and of runDemo()'s species change.
SelectSpecies(key) ==
    /\ ConfigGuard
    /\ lastOp' = Op("selectSpecies", key)
    /\ currentSpecies' = key
    /\ UNCHANGED <<SPECIES, mutationMode, mutatedParams>>

\* PresetGalleryUI.loadPreset(id): returns when the gallery has no such id,
\* else calls setParameters with the preset's R, T, mu, sigma.
LoadPreset(id) ==
    /\ ConfigGuard
    /\ lastOp' = Op("loadPreset", id)
    /\ IF id \in DOMAIN presets
       THEN SetParametersBody(presets[id])
       ELSE UNCHANGED paramVars

\* ------------------------------------------------------- ecosystem: calls
IsEcosystem == engine = "LeniaEcosystem" /\ phase = "running"

\* LeniaEcosystem.step().
EcoStep ==
    /\ IsEcosystem
    /\ ticks < MaxTicks
    /\ ticks' = ticks + 1
    /\ lastOp' = Op("step", <<>>)
    /\ uniforms' = EcoUniforms(EcosystemSpecies, timeScale, PredationStrength,
                               BenefitStrength)
    /\ fragColor' = EcoDraw(Tex(currentBuffer), uniforms', EcoStepKernel(uniforms'.R))
    /\ textures' = [textures EXCEPT ![NextBuffer(currentBuffer) + 1] =
                       StoreColors(fragColor')]
    /\ currentBuffer' = NextBuffer(currentBuffer)
    /\ UNCHANGED <<width, height, paramVars, otherVars, ops>>

EcoEditGuard ==
    /\ IsEcosystem
    /\ ops < MaxOps
    /\ ops' = ops + 1
    /\ UNCHANGED <<width, height, currentBuffer, fragColor, uniforms, paramVars,
                   otherVars, ticks>>

EcoSeedCall(draw) ==
    /\ EcoEditGuard
    /\ lastOp' = Op("seedEcosystem", <<>>)
    /\ Upload(SeedEcosystem(width, height, draw))

EcoClearCall ==
    /\ EcoEditGuard
    /\ lastOp' = Op("clear", <<>>)
    /\ Upload(BlankTexture(width, height))

EcoPaintCall(pos, species, brush) ==
    /\ EcoEditGuard
    /\ lastOp' = Op("paint", <<pos, species, brush>>)
    /\ Upload(EcoPaint(Tex(currentBuffer), width, height, pos[1], pos[2],
                       species, brush[1], brush[2]))

\* getPopulationStats(): read-only; the record it returns is kept in lastOp.
EcoStatsCall ==
    /\ IsEcosystem
    /\ ops < MaxOps
    /\ ops' = ops + 1
    /\ lastOp' = Op("getPopulationStats",
                    GetPopulationStats(Tex(currentBuffer), width, height))
    /\ UNCHANGED <<fieldVars, paramVars, otherVars, ticks>>

\* ------------------------------------------------------------------- Next
\* Canvases the page is loaded with in the model.
Canvases ==
    {Canvas(gl, compiled, linked, w, 2 * FieldH) :
        gl \in BOOLEAN, compiled \in BOOLEAN, linked \in BOOLEAN,
        w \in {0, 2 * FieldW}}

Next ==
    \/ \E canvas \in Canvases, blob \in RandomBlobs : Construct(canvas, blob, 8)
    \/ \E canvas \in Canvases, draw \in SeedDraws : EcoConstruct(canvas, draw)
    \/ EcoStep
    \/ \E draw \in SeedDraws : EcoSeedCall(draw)
    \/ EcoClearCall
    \/ EcoStatsCall
    \/ \E pos \in Positions, species \in PaintSpecies :
          EcoPaintCall(pos, species, <<20000, 180000>>)
    \/ \E rnd \in RandomDraws : Step(rnd)
    \/ \E frame \in Frames, rnd \in RandomDraws : Animate(frame, rnd)
    \/ TogglePlay
    \/ ToggleDemo
    \/ \E success \in MicrophoneResults : ToggleAudio(success)
    \/ \E blob \in RandomBlobs : RandomizeCall(blob, 8)
    \/ ClearCall
    \/ \E pos \in Positions, brush \in PaintBrushes : PaintCall(pos, brush)
    \/ \E pos \in Positions : SpawnCall("orbium", pos)
    \/ ToggleMutation
    \/ ToggleTrail
    \/ \E rnd \in RandomDraws : MutateCall(rnd)
    \/ \E params \in SetParameterArgs : SetParameters(params)
    \/ \E key \in SpeciesKeys : SelectSpecies(key)
    \/ \E id \in PresetIds : LoadPreset(id)

Spec == Init /\ [][Next]_vars

\* --------------------------------------------- the kernel sum of a draw
\* Radii u_R of the draws measured: 0.1 to 25.0 in steps of 0.1.
KernelRadii == {100 * i : i \in 1..250}

\* kernelSum as the loops of SIMULATION_SHADER leave it in a draw with
\* u_R = R, in thousandths, for each radius measured.
KernelSums ==
    [R \in KernelRadii |-> KernelSum(KernelTable(R, LoopBound), LeniaDistances)]
        @@ <<>>

\* A draw of the simulation program with u_R = R; lastOp keeps kernelSum and
\* the denominator max(kernelSum, 0.001) of U.
DrawKernelSum(R) ==
    /\ lastOp' = Op("kernelSum",
                    [R |-> R, kernelSum |-> KernelSums[R],
                     denominator |-> Max(KernelSums[R], 1)])
    /\ UNCHANGED <<fieldVars, paramVars, otherVars, countVars>>

KernelInit == Init /\ engine = "Lenia"

KernelNext == \E R \in KernelRadii : DrawKernelSum(R)

KernelSpec == KernelInit /\ [][KernelNext]_vars

\* ---------------------------------------------------------- Lenia: speed
\* The number NaN among the scales of the model, which are thousandths; no
\* other number of the model has this value.
NaN == -999999999

\* Math.min, Math.max: NaN when an argument is NaN.
MathMin(a, b) == IF a = NaN \/ b = NaN THEN NaN ELSE Min(a, b)
MathMax(a, b) == IF a = NaN \/ b = NaN THEN NaN ELSE Max(a, b)

\* a * 0.5 and a * 2.0.
Halved(a) == IF a = NaN THEN NaN ELSE a \div 2
Doubled(a) == IF a = NaN THEN NaN ELSE 2 * a

\* setSpeed without its bounds.
SpeedSetFree(scale) == scale

\* setSpeed(scale): the value of this.timeScale it leaves.
SpeedSet(scale) == MathMax(100, MathMin(5000, scale))

\* Scales passed to setSpeed in the model: the three speed buttons (0.5, 1.0,
\* 2.0), scales below, between and above the bounds, and NaN.
Scales == {NaN, -3000, 0, 50, 500, 1000, 2000, 2500, 7000}

SpeedGuard ==
    /\ IsLenia
    /\ ops < MaxOps
    /\ ops' = ops + 1
    /\ UNCHANGED <<fieldVars, paramVars, flagVars, ticks, engine, phase,
                   thrown, trailEnabled, galleryVars, auxVars>>

SetSpeed(scale) ==
    /\ SpeedGuard
    /\ lastOp' = Op("setSpeed", scale)
    /\ timeScale' = SpeedSet(scale)

\* Key '[': setSpeed(Math.max(0.1, timeScale * 0.5)).  (Pressed in the model
\* when the half is a whole number of thousandths or below the bound.)
KeySlower ==
    /\ SpeedGuard
    /\ timeScale = NaN \/ timeScale % 2 = 0 \/ timeScale <= 200
    /\ lastOp' = Op("key", "[")
    /\ timeScale' = SpeedSet(MathMax(100, Halved(timeScale)))

\* Key ']': setSpeed(Math.min(5.0, timeScale * 2.0)).
KeyFaster ==
    /\ SpeedGuard
    /\ lastOp' = Op("key", "]")
    /\ timeScale' = SpeedSet(MathMin(5000, Doubled(timeScale)))

\* step() while timeScale is a number.  (With u_dt = NaN the values the draw
\* stores are not defined; the model ends there.)
SpeedStep(rnd) ==
    /\ timeScale # NaN
    /\ Step(rnd)

SpeedInit == Init /\ engine = "Lenia"

SpeedNext ==
    \/ \E canvas \in Canvases, blob \in RandomBlobs : Construct(canvas, blob, 8)
    \/ \E scale \in Scales : SetSpeed(scale)
    \/ KeySlower
    \/ KeyFaster
    \/ \E rnd \in RandomDraws : SpeedStep(rnd)

SpeedSpec == SpeedInit /\ [][SpeedNext]_vars

\* ------------------------------------------------- Lenia: beat throttling
\* this.beatHoldTime, in ms.
BeatHoldTime == 100

\* Least time between two beat perturbations of applyAudioEffects(), in ms.
BeatPerturbTime == 150

\* Time passing between two readings of performance.now() in the model, ms.
AudioQuanta == {50}

\* getBass() of the frames of the model that paint on a beat, thousandths.
BeatBass == 250

\* performance.now() advances by q.
TimePasses(q) ==
    /\ lastOp' = Op("wait", q)
    /\ sinceBeat' = Min(sinceBeat + q, BeatHoldTime + 1)
    /\ sincePerturb' = Min(sincePerturb + q, BeatPerturbTime + 1)
    /\ UNCHANGED <<fieldVars, paramVars, flagVars, countVars, engine, phase,
                   thrown, timeScale, trailEnabled, galleryVars, recorderVars,
                   isBeat>>

\* update() without the test of beatHoldTime.
UpdatedBeatUnheld(loud) == loud

\* AudioReactive.update(): the isBeat it leaves; loud is
\* this.bass > this.smoothBass * this.beatThreshold.
UpdatedBeat(loud) == loud /\ sinceBeat > BeatHoldTime

\* applyAudioEffects() without the test of lastBeatPerturbTime.
BeatPerturbsUnthrottled(beat) == audioReactiveEnabled /\ beat

\* applyAudioEffects(): whether it paints the beat perturbation, beat being
\* hasBeat() after update().
BeatPerturbs(beat) ==
    audioReactiveEnabled /\ beat /\ sincePerturb > BeatPerturbTime

\* One animate() frame with the beat detection of update() and the throttle
\* of applyAudioEffects(): applyAudioEffects() returns before update() unless
\* audioReactiveEnabled.
AudioFrame(loud, rnd) ==
    LET beat == IF audioReactiveEnabled THEN UpdatedBeat(loud) ELSE isBeat
        painted == BeatPerturbs(beat)
    IN  /\ AnimateBody(Frame(FALSE, painted, FALSE,
                             IF painted THEN BeatBass ELSE 0, <<500, 500>>), rnd)
        /\ isBeat' = beat
        /\ sinceBeat' = IF audioReactiveEnabled /\ beat THEN 0 ELSE sinceBeat
        /\ sincePerturb' = IF painted THEN 0 ELSE sincePerturb

AudioInit == Init /\ engine = "Lenia"

AudioNext ==
    \/ \E canvas \in Canvases, blob \in RandomBlobs : Construct(canvas, blob, 8)
    \/ TogglePlay
    \/ \E success \in BOOLEAN : ToggleAudio(success)
    \/ \E q \in AudioQuanta : TimePasses(q)
    \/ \E loud \in BOOLEAN, rnd \in RandomDraws : AudioFrame(loud, rnd)

AudioSpec == AudioInit /\ [][AudioNext]_vars

\* ------------------------------------------------------ LeniaRecorder
\* this.maxFrames.
MaxFrames == 150

\* this.frameInterval = 1000 / 30 ms, in thirds of a millisecond.
FrameInterval == 100

\* Recordings started in the model.
MaxRecordings == 2
RecordingIds == 1..MaxRecordings

\* Time between two animate() frames in the model: one or two refresh
\* periods of 1000 / 60 ms.
Quanta == {50, 100}

\* Outcomes of canvas.toDataURL(): TRUE a data URL, FALSE an exception.
CaptureResults == {TRUE, FALSE}

\* Outcomes of the synchronous part of exportGIF(): "renders" when the GIF
\* encoder was built and gif.render() is under way, "throws" when building
\* it threw and the catch block ran exportFrames() at once.
ExportStarts == {"renders", "throws"}

RecorderGuard == UNCHANGED <<fieldVars, paramVars, flagVars, countVars, engine,
                             phase, thrown, timeScale, trailEnabled, galleryVars,
                             beatVars>>

\* A frame of recording rec stored gap after the frame before it (after
\* start() for the first).
StoredFrame(rec, gap) == [rec |-> rec, gap |-> gap]

\* stop() of a running recording: recording off, and exportGIF() when a
\* frame is stored.  exportFrames() ends with this.frames = [].
Stopped(how) ==
    /\ recording' = FALSE
    /\ UNCHANGED <<sinceFrame, recordings>>
    /\ IF frames = <<>> THEN UNCHANGED <<frames, exports>>
       ELSE IF how = "throws" THEN frames' = <<>> /\ UNCHANGED exports
       ELSE exports' = exports \cup {recordings} /\ UNCHANGED frames

\* toggle(): stop() while recording, start() otherwise.
ToggleRecording(how) ==
    /\ RecorderGuard
    /\ IF recording
       THEN /\ lastOp' = Op("toggle", "stop")
            /\ Stopped(how)
       ELSE /\ recordings < MaxRecordings
            /\ lastOp' = Op("toggle", "start")
            /\ recording' = TRUE
            /\ frames' = <<>>
            /\ sinceFrame' = 0
            /\ recordings' = recordings + 1
            /\ UNCHANGED exports

\* captureFrame() without the test of frames.length against maxFrames.
RecorderFrameUncapped(q, ok, how) ==
    /\ RecorderGuard
    /\ LET elapsed == Min(sinceFrame + q, FrameInterval)
       IN  IF ~recording \/ elapsed < FrameInterval
           THEN /\ lastOp' = Op("captureFrame",
                                IF recording THEN "throttled" ELSE "idle")
                /\ sinceFrame' = elapsed
                /\ UNCHANGED <<recording, frames, recordings, exports>>
           ELSE IF ok
           THEN /\ lastOp' = Op("captureFrame", "stored")
                /\ frames' = Append(frames, StoredFrame(recordings, elapsed))
                /\ sinceFrame' = 0
                /\ UNCHANGED <<recording, recordings, exports>>
           ELSE /\ lastOp' = Op("captureFrame", "failed")
                /\ Stopped(how)

\* An animate() frame, q after the one before: captureFrame(performance.now())
\* when the recorder is recording.  ok is the outcome of toDataURL(), how
\* that of exportGIF() if it comes to that.
RecorderFrame(q, ok, how) ==
    /\ RecorderGuard
    /\ LET elapsed == Min(sinceFrame + q, FrameInterval)
       IN  IF ~recording
           THEN /\ lastOp' = Op("captureFrame", "idle")
                /\ sinceFrame' = elapsed
                /\ UNCHANGED <<recording, frames, recordings, exports>>
           ELSE IF elapsed < FrameInterval
           THEN /\ lastOp' = Op("captureFrame", "throttled")
                /\ sinceFrame' = elapsed
                /\ UNCHANGED <<recording, frames, recordings, exports>>
           ELSE IF Len(frames) >= MaxFrames
           THEN /\ lastOp' = Op("captureFrame", "full")
                /\ Stopped(how)
           ELSE IF ok
           THEN /\ lastOp' = Op("captureFrame", "stored")
                /\ frames' = Append(frames, StoredFrame(recordings, elapsed))
                /\ sinceFrame' = 0
                /\ UNCHANGED <<recording, recordings, exports>>
           ELSE /\ lastOp' = Op("captureFrame", "failed")
                /\ Stopped(how)

\* The end of the export of recording rec: the 'finished' callback of
\* gif.render(), or exportFrames() after an image failed to load; both end
\* with this.frames = [].
ExportEnded(rec, finished) ==
    /\ RecorderGuard
    /\ rec \in exports
    /\ lastOp' = Op(IF finished THEN "finished" ELSE "exportFrames", rec)
    /\ exports' = exports \ {rec}
    /\ frames' = <<>>
    /\ UNCHANGED <<recording, sinceFrame, recordings>>

RecorderInit == Init /\ engine = "Lenia"

RecorderNext ==
    \/ \E how \in ExportStarts : ToggleRecording(how)
    \/ \E q \in Quanta, ok \in CaptureResults, how \in ExportStarts :
          RecorderFrame(q, ok, how)
    \/ \E rec \in RecordingIds, finished \in BOOLEAN : ExportEnded(rec, finished)

RecorderSpec == RecorderInit /\ [][RecorderNext]_vars

\* ------------------------------------------------ preset gallery: the calls
\* Records saved and texts imported in the model.
SavedParams ==
    {Params(9000, 11000, 130000, 14000), Params(12000, 18000, 140000, 15000)}
SavedIds == {"glider", "mine", "pulse", "constructor"}

\* A file of sixteen presets, bulk01 to bulk16, of the same parameters.
BulkText ==
    JsonText("object", [i \in 1..16 |-> <<IdOrder[i + 6], DefaultPresets["stable"]>>])

ImportTexts ==
    {JsonText("object", << <<"glider", Params(20000, 5000, 100000, 10000)>>,
                          <<"mine", Params(7000, 9000, 200000, 30000)>>,
                          <<"mine", Params(6000, 9000, 200000, 30000)>> >>),
     BulkText,
     JsonText("object", <<>>),
     JsonText("null", <<>>),
     JsonText("garbage", <<>>)}

GalleryGuard == UNCHANGED <<fieldVars, paramVars, flagVars, countVars, engine,
                            phase, thrown, timeScale, trailEnabled, auxVars>>

\* What a call of the gallery returned or threw.
Returned(value) == [thrown |-> FALSE, value |-> value]
Threw(message) == [thrown |-> TRUE, value |-> message]

\* savePreset(id, params).  (created: Date.now() is left out of the records,
\* as in DefaultPresets.)
SavePreset(id, params) ==
    /\ GalleryGuard
    /\ IF Cardinality(DOMAIN presets) >= MaxPresets /\ ~Truthy(presets, id)
       THEN /\ lastOp' = Op("savePreset",
                            [id |-> id, params |-> params,
                             result |-> Threw(<<"Maximum ", MaxPresets,
                                                " presets reached">>)])
            /\ UNCHANGED galleryVars
       ELSE /\ lastOp' = Op("savePreset", [id |-> id, params |-> params,
                                           result |-> Returned(0)])
            /\ presets' = Spread(presets, [i \in {id} |-> params])
            /\ storage' = Stringify(presets')

\* deletePreset(id).
DeletePreset(id) ==
    /\ GalleryGuard
    /\ lastOp' = Op("deletePreset", [id |-> id, result |-> Returned(0)])
    /\ presets' = [i \in DOMAIN presets \ {id} |-> presets[i]]
    /\ storage' = Stringify(presets')

\* exportPresets().
ExportPresets ==
    /\ GalleryGuard
    /\ lastOp' = Op("exportPresets", [result |-> Returned(Stringify(presets))])
    /\ UNCHANGED galleryVars

\* importPresets(jsonString) on a mapping: the mapping it leaves and what it
\* returns or throws.  JSON.parse throws on garbage before anything is
\* assigned; of null the spread adds nothing and Object.keys(null) throws;
\* both are rethrown as 'Invalid preset JSON'.
Import(mapping, text) ==
    IF text.kind = "garbage"
    THEN [presets |-> mapping, saved |-> FALSE,
          result |-> Threw("Invalid preset JSON")]
    ELSE [presets |-> Spread(mapping, Parse(text)), saved |-> TRUE,
          result |-> IF text.kind = "null" THEN Threw("Invalid preset JSON")
                     ELSE Returned(Cardinality(DOMAIN Parse(text)))]

ImportPresets(text) ==
    /\ GalleryGuard
    /\ lastOp' = Op("importPresets",
                    [text |-> text, result |-> Import(presets, text).result])
    /\ presets' = Import(presets, text).presets
    /\ storage' = IF Import(presets, text).saved THEN Stringify(presets')
                  ELSE storage

\* importPresets(exportPresets()).
ImportExported ==
    /\ GalleryGuard
    /\ lastOp' = Op("importPresets",
                    [text |-> Stringify(presets),
                     result |-> Import(presets, Stringify(presets)).result])
    /\ presets' = Import(presets, Stringify(presets)).presets
    /\ storage' = Stringify(presets')

GalleryInit == Init /\ engine = "Lenia"

GalleryNext ==
    \/ \E id \in SavedIds, params \in SavedParams : SavePreset(id, params)
    \/ \E id \in SavedIds : DeletePreset(id)
    \/ ExportPresets
    \/ \E text \in ImportTexts : ImportPresets(text)
    \/ ImportExported

GallerySpec == GalleryInit /\ [][GalleryNext]_vars

\* ------------------------------------------------------------- properties
\* The R, T, mu, sigma among the uniforms of the single-species program.
UniformParams(u) == Params(u.R, u.T, u.mu, u.sigma)

\* The buffer the last step() read (currentBuffer has been swapped since).
ReadBuffer == Tex(1 - currentBuffer)

\* C1 -- Boundedness.  After any sequence of step, paint, spawnCreature,
\* randomize and clear (single species) and of step, paint, seedEcosystem
\* and clear (ecosystem), every channel of every cell of both buffers is a
\* byte 0..255, and every value a simulation draw writes lies in [0, 1].
C1_Bounded ==
    /\ \A i \in 1..2 : \A c \in DOMAIN textures[i] : \A ch \in 1..3 :
          textures[i][c][ch] \in 0..ByteMax
    /\ \A c \in DOMAIN fragColor : \A ch \in 1..3 :
          fragColor[c][ch] >= 0 /\ fragColor[c][ch] <= Micro

\* A step of the single-species engine on an edited field: the buffer read
\* holds a saturated cell and the draw wrote a value strictly inside (0, 1).
C1_Witness ==
    /\ engine = "Lenia" /\ lastOp.op = "step" /\ ops > 0
    /\ \E c \in DOMAIN ReadBuffer : ReadBuffer[c][1] = ByteMax
    /\ \E c \in DOMAIN fragColor : fragColor[c][1] > 0 /\ fragColor[c][1] < Micro

\* The field the step() of operation op finds in the current buffer: the
\* buffer as it is for a step() call, the buffer after the frame's paints
\* for the step() of an animate() frame.
FieldSteppedBy(op) ==
    IF op.op = "animate"
    THEN FramePainted(Tex(currentBuffer), width, height, op.args, demoMode,
                      audioReactiveEnabled)
    ELSE Tex(currentBuffer)

\* C2 -- Double buffering.  currentBuffer is 0 or 1; every step() leaves the
\* buffer it reads unchanged, writes the draw's output to the other buffer
\* and then makes that one current.
C2_DoubleBuffering ==
    [][ticks' = ticks + 1 =>
          /\ currentBuffer \in {0, 1}
          /\ currentBuffer' = 1 - currentBuffer
          /\ textures'[currentBuffer + 1] = FieldSteppedBy(lastOp')
          /\ textures'[currentBuffer' + 1] = StoreColors(fragColor')]_vars

\* The second of two steps: buffer 0 is current again, and the two buffers
\* hold different fields.
C2_Witness ==
    /\ ticks = 2 /\ currentBuffer = 0 /\ width > 0
    /\ textures[1] # textures[2]

\* The ranges mutate() keeps the working copy in.
InMutationBounds(q) ==
    /\ q.R >= 5000 /\ q.R <= 20000
    /\ q.T >= 5000 /\ q.T <= 20000
    /\ q.mu >= 50000 /\ q.mu <= 300000
    /\ q.sigma >= 5000 /\ q.sigma <= 50000

\* C3 -- Mutation bounds.  After a mutate() call on a working copy, whatever
\* it held before, the copy has R, T in [5, 20], mu in [0.05, 0.3] and sigma
\* in [0.005, 0.05]; every step() in mutation mode uses parameters within
\* these ranges.
C3_MutationBounds ==
    [][/\ (lastOp'.op = "mutate" /\ mutatedParams # <<>>)
            => InMutationBounds(mutatedParams'[1])
       /\ (lastOp'.op = "step" /\ engine = "Lenia" /\ mutationMode)
            => InMutationBounds(UniformParams(uniforms'))]_vars

\* A step in mutation mode after setParameters wrote R = 25 into the working
\* copy: the step used R = 20.
C3_Witness ==
    /\ engine = "Lenia" /\ lastOp.op = "step" /\ mutationMode
    /\ currentSpecies = "custom" /\ SPECIES["custom"].R = 25000
    /\ uniforms.R = 20000

\* C4 -- The working copy is distinct from the catalog.  toggleMutation(),
\* mutate() and step() change no SPECIES entry; toggling mutation off leaves
\* mutatedParams null, and a step() with mutation off uses exactly the R, T,
\* mu, sigma of SPECIES[currentSpecies].
C4_WorkingCopyDistinct ==
    [][/\ lastOp'.op \in {"toggleMutation", "mutate", "step"} => SPECIES' = SPECIES
       /\ (lastOp'.op = "toggleMutation" /\ ~mutationMode') => mutatedParams' = <<>>
       /\ (lastOp'.op = "step" /\ engine = "Lenia" /\ ~mutationMode)
            => UniformParams(uniforms') = SPECIES[currentSpecies]]_vars

\* Mutation toggled off after a step in mutation mode drifted the working
\* copy away from the catalog entry.
C4_Witness ==
    /\ lastOp.op = "toggleMutation" /\ ~mutationMode /\ mutatedParams = <<>>
    /\ ticks > 0 /\ uniforms.R # SPECIES[currentSpecies].R
    /\ SPECIES = Catalog

\* setParameters arguments the specification calls configuration errors.
InvalidParameters(q) == q.R <= 0 \/ q.T <= 0 \/ q.sigma <= 0

\* C5 -- setParameters called with R <= 0, T <= 0 or sigma <= 0 changes no
\* engine state.
C5_InvalidRejected ==
    [][(lastOp'.op = "setParameters" /\ InvalidParameters(lastOp'.args))
          => UNCHANGED paramVars]_vars

\* C6 -- The parameters step() passes to the update rule satisfy R > 0,
\* T > 0 and sigma > 0.
C6_StepParametersPositive ==
    (engine = "Lenia" /\ lastOp.op = "step")
        => uniforms.R > 0 /\ uniforms.T > 0 /\ uniforms.sigma > 0

\* setParameters arguments with all four fields positive.
AllPositive(q) == q.R > 0 /\ q.T > 0 /\ q.mu > 0 /\ q.sigma > 0

\* C7 -- setParameters with four positive fields and mutation off makes
\* currentSpecies 'custom', and the step() that follows uses exactly those
\* four values; loading a preset with an unknown id changes no engine state.
C7_CustomParameters ==
    [][/\ (lastOp'.op = "setParameters" /\ AllPositive(lastOp'.args) /\ ~mutationMode)
            => currentSpecies' = "custom"
       /\ (lastOp'.op = "step" /\ lastOp.op = "setParameters"
              /\ AllPositive(lastOp.args) /\ ~mutationMode)
            => UniformParams(uniforms') = lastOp.args
       /\ (lastOp'.op = "loadPreset" /\ lastOp'.args \notin DOMAIN presets)
            => UNCHANGED <<fieldVars, paramVars, timeScale, trailEnabled>>]_vars

\* A step with mutation off that used the record setParameters was given.
C7_Witness ==
    /\ engine = "Lenia" /\ lastOp.op = "step" /\ ~mutationMode
    /\ currentSpecies = "custom"
    /\ UniformParams(uniforms) = Params(25000, 8000, 120000, 8000)

\* Canvases on which the specification requires construction to fail.
ResourceError(canvas) ==
    ~canvas.gl \/ ~canvas.compiled \/ ~canvas.linked \/ canvas.w = 0 \/ canvas.h = 0

\* C8 -- With the WebGL context missing, a shader failing to compile or
\* link, or a zero-sized canvas, the constructor throws and the engine never
\* animates; no step() runs on a field without cells.
C8_ResourceErrorsFatal ==
    /\ (lastOp.op = "new" /\ ResourceError(lastOp.args))
          => phase = "failed" /\ thrown # ""
    /\ ticks > 0 => width > 0 /\ height > 0

\* The loop tables of textures that wrap around: the texel read at offset
\* (dx, dy) from cell (x, y) is ((x + dx) mod W, (y + dy) mod H).
TorusLoop == LoopTable(LoopBound, FieldW, FieldH, "TORUS")
EcoTorusLoop == LoopTable(EcoLoopBound, FieldW, FieldH, "TORUS")

\* C9 -- Toroidal neighbourhood.  In both engines the potentials of a step
\* are those obtained by reading, at every offset of the convolution loop,
\* the cell at the coordinates taken modulo the field size.
C9_ToroidalSampling ==
    (lastOp.op = "step" /\ width = FieldW /\ height = FieldH)
        => IF engine = "Lenia"
           THEN SimPotentials(ReadBuffer, SimKernel(uniforms.R, LeniaLoop))
                    = SimPotentials(ReadBuffer, SimKernel(uniforms.R, TorusLoop))
           ELSE EcoPotentials(ReadBuffer, EcoKernel(uniforms.R, EcoLoop))
                    = EcoPotentials(ReadBuffer, EcoKernel(uniforms.R, EcoTorusLoop))

\* The integer offsets within distance R (thousandths) of a cell.
DiscOffsets(R) ==
    LET k == R \div Milli + 1
    IN  {o \in (-k..k) \X (-k..k) : DistSq(o) * Micro <= R * R}

\* C10 -- Disc neighbourhood.  For the radius a step ran with, the offsets
\* that contributed to the potential are exactly those with
\* dx*dx + dy*dy <= R*R.  (The ecosystem loop leaves out the centre, whose
\* kernel weight is 0.)
C10_DiscNeighbourhood ==
    lastOp.op = "step" =>
        IF engine = "Lenia"
        THEN SampledOffsets(uniforms.R, LoopBound) = DiscOffsets(uniforms.R)
        ELSE \A i \in 1..3 :
                SampledOffsets(uniforms.R[i], EcoLoopBound) \ {<<0, 0>>}
                    = DiscOffsets(uniforms.R[i]) \ {<<0, 0>>}

\* A texture all of whose channels are 0 in every cell.
AllZero(tex) == \A c \in DOMAIN tex : tex[c] = Texel(0, 0, 0)

\* C11 -- Zero fixed point.  A step() of the single-species engine that reads
\* an all-zero field writes an all-zero field, whatever parameters the
\* engine holds.
C11_ZeroFieldStaysZero ==
    [][(lastOp'.op = "step" /\ engine = "Lenia" /\ AllZero(Tex(currentBuffer)))
          => AllZero(textures'[currentBuffer' + 1])]_vars

\* The texture holding channel ch of tex alone, as a single-species field.
ChannelTexture(tex, ch) == [c \in DOMAIN tex |-> Grey(tex[c][ch])]

\* tex with every channel but ch set to 0.
OnlyChannel(tex, ch) ==
    [c \in DOMAIN tex |-> [i \in 1..3 |-> IF i = ch THEN tex[c][i] ELSE 0]]

\* The uniforms u of the ecosystem program with u_predation = u_benefit = 0.
NoInteraction(u) == [u EXCEPT !.predation = 0, !.benefit = 0]

\* The uniforms of a single-species step with the parameters of species ch
\* of the ecosystem uniforms u (trail off).
SpeciesUniforms(u, ch) ==
    StepUniforms(Params(u.R[ch], u.T[ch], u.mu[ch], u.sigma[ch]), u.dt, FALSE)

\* C12 -- Decoupled ecosystem.  With u_predation = 0 and u_benefit = 0 the
\* ecosystem shader gives every channel of every cell (a) the value the
\* single-species shader gives that channel's field under the channel's own
\* R, T, mu, sigma, and so (b) the value it gives when the other two
\* channels are empty.  Stated for the field an ecosystem step has read.
C12_DecoupledEcosystem ==
    (engine = "LeniaEcosystem" /\ lastOp.op = "step") =>
        LET u == NoInteraction(uniforms)
            k == EcoStepKernel(u.R)
        IN  \A ch \in 1..3 : \A c \in DOMAIN ReadBuffer :
               /\ EcoFragment(ReadBuffer, c, u, k)[ch]
                     = SimFragment(ChannelTexture(ReadBuffer, ch), c,
                                   SpeciesUniforms(u, ch), StepKernel(u.R[ch]))
               /\ EcoFragment(ReadBuffer, c, u, k)[ch]
                     = EcoFragment(OnlyChannel(ReadBuffer, ch), c, u, k)[ch]

\* Part (b) of C12 alone: no dependence on the other channels' densities.
C12_ChannelsIndependent ==
    (engine = "LeniaEcosystem" /\ lastOp.op = "step") =>
        LET u == NoInteraction(uniforms)
            k == EcoStepKernel(u.R)
        IN  \A ch \in 1..3 : \A c \in DOMAIN ReadBuffer :
               EcoFragment(ReadBuffer, c, u, k)[ch]
                   = EcoFragment(OnlyChannel(ReadBuffer, ch), c, u, k)[ch]

\* C13 -- Clear.  clear() of either engine leaves the current buffer with 0
\* in every channel of every cell of the width x height field, and changes
\* neither currentBuffer, the other buffer, the parameters nor the playing,
\* demo, audio and mutation flags.
C13_ClearZeroes ==
    [][lastOp'.op = "clear" =>
          /\ DOMAIN textures'[currentBuffer + 1] = Cells(width, height)
          /\ AllZero(textures'[currentBuffer + 1])
          /\ textures'[2 - currentBuffer] = textures[2 - currentBuffer]
          /\ UNCHANGED <<currentBuffer, width, height, paramVars, flagVars,
                         timeScale, trailEnabled>>]_vars

\* clear() on a paused single-species engine that has stepped: the current
\* buffer is empty while the other buffer still holds cells.
C13_Witness ==
    /\ engine = "Lenia" /\ lastOp.op = "clear" /\ ~playing /\ ticks > 0
    /\ width > 0 /\ AllZero(Tex(currentBuffer))
    /\ ~AllZero(Tex(1 - currentBuffer))

\* The patch value spawnCreature(creature, pos) brings to cell c of the
\* current field, -1 where no source cell of at least 0.01 lands.
PatchValue(creature, pos, c) ==
    SpawnValue(creature, c, (pos[1] * width) \div Milli,
               ((Milli - pos[2]) * height) \div Milli, Milli)

Brushed(data, w, h, x, y, radius, intensity) ==
    LET px == (x * w) \div Milli
        py == ((Milli - y) * h) \div Milli
    IN  [c \in DOMAIN data |->
            LET d2 == (c[1] - px) * (c[1] - px) + (c[2] - py) * (c[2] - py)
                dist == SqrtMilli[Min(d2, MaxDistSq) + 1]
                falloff == Milli - RDiv(dist * Milli, radius)
                add == (intensity * ((falloff * falloff) \div Milli)) \div Milli
            IN  IF dist <= radius
                THEN Grey(ToUint8(Min(ByteMax * Milli, data[c][1] * Milli + add)))
                ELSE data[c]]

\* The brush on the field that paint(x, y, radius, intensity) of the page
\* leaves.
PaintIsBrush ==
    [][(lastOp'.op = "paint" /\ engine = "Lenia") =>
          textures'[currentBuffer + 1] =
              Brushed(Tex(currentBuffer), width, height,
                      lastOp'.args[1][1], lastOp'.args[1][2],
                      lastOp'.args[2][1], lastOp'.args[2][2])]_vars

\* C15 -- Additive brush.  Every paint, the page's and the beat
\* perturbation paint(x, y, 20 + 30 * bass, 150 + 100 * bass) of an
\* animate() frame, leaves the painted buffer as the additive brush of that
\* radius and intensity makes it.
C15_AdditiveBrush ==
    [][/\ (lastOp'.op = "paint" /\ engine = "Lenia") =>
             textures'[currentBuffer + 1] =
                 Brushed(Tex(currentBuffer), width, height,
                         lastOp'.args[1][1], lastOp'.args[1][2],
                         lastOp'.args[2][1], lastOp'.args[2][2])
       /\ (lastOp'.op = "animate" /\ audioReactiveEnabled
             /\ lastOp'.args.beat /\ ~lastOp'.args.demoPaint) =>
             textures'[currentBuffer + 1] =
                 Brushed(Tex(currentBuffer), width, height,
                         lastOp'.args.pos[1], lastOp'.args.pos[2],
                         20000 + 30 * lastOp'.args.bass,
                         150000 + 100 * lastOp'.args.bass)]_vars

StatChannels == <<"prey", "predator", "apex">>

\* getPopulationStats() changed nothing it reads.
StatsReadOnly == UNCHANGED <<textures, currentBuffer, width, height>>

Imported(text, id) ==
    LET i == CHOOSE i \in 1..Len(text.entries) :
                /\ text.entries[i][1] = id
                /\ \A j \in (i + 1)..Len(text.entries) : text.entries[j][1] # id
    IN  text.entries[i][2]

ImportedIds(text) == {text.entries[i][1] : i \in 1..Len(text.entries)}

\* C17 -- Preset import and export.  After importPresets of an object text
\* every id of the text maps to the record the text gives it and every other
\* id keeps its record; exportPresets returns a text with exactly the ids of
\* the mapping, each with its record; importPresets of the exported text
\* leaves the mapping as it was; importPresets of text that is no JSON
\* throws and leaves the mapping as it was.
C17_ImportExport ==
    [][/\ lastOp'.op = "importPresets" =>
             LET text == lastOp'.args.text
             IN  /\ text.kind = "object" =>
                       /\ ~lastOp'.args.result.thrown
                       /\ DOMAIN presets' = DOMAIN presets \cup ImportedIds(text)
                       /\ \A id \in DOMAIN presets' :
                             presets'[id] = IF id \in ImportedIds(text)
                                            THEN Imported(text, id)
                                            ELSE presets[id]
                 /\ text = Stringify(presets) => presets' = presets
                 /\ text.kind = "garbage" =>
                       lastOp'.args.result.thrown /\ presets' = presets
       /\ lastOp'.op = "exportPresets" =>
             LET text == lastOp'.args.result.value
             IN  /\ presets' = presets
                 /\ text.kind = "object"
                 /\ Len(text.entries) = Cardinality(DOMAIN presets)
                 /\ ImportedIds(text) = DOMAIN presets
                 /\ \A i \in 1..Len(text.entries) :
                       text.entries[i][2] = presets[text.entries[i][1]]]_vars

\* An import has replaced the record of glider, added mine and kept pulse.
C17_Witness ==
    /\ lastOp.op = "importPresets" /\ lastOp.args.text.kind = "object"
    /\ ~lastOp.args.result.thrown /\ lastOp.args.result.value = 2
    /\ "mine" \in DOMAIN presets /\ "pulse" \in DOMAIN presets
    /\ "glider" \in DOMAIN presets
    /\ presets["glider"] = Params(20000, 5000, 100000, 10000)
    /\ presets["mine"] = Params(6000, 9000, 200000, 30000)
    /\ presets["pulse"] = DefaultPresets["pulse"]

\* The field an animate() frame has painted when its step() starts: the
\* demo perturbation, then the beat perturbation, then the bass
\* perturbation, each on the current buffer.
PaintedBeforeStep(frame) ==
    LET P(data, on, radius, intensity) ==
            IF on THEN Paint(data, width, height, frame.pos[1], frame.pos[2],
                             radius, intensity)
            ELSE data
        p1 == P(Tex(currentBuffer), demoMode /\ frame.demoPaint, 15000, 120000)
        p2 == P(p1, audioReactiveEnabled /\ frame.beat,
                20000 + 30 * frame.bass, 150000 + 100 * frame.bass)
    IN  P(p2, audioReactiveEnabled /\ frame.bass > 300 /\ frame.subtle,
          10000, 80 * frame.bass)

\* C18 -- Edits are serialised with step().  paint, spawnCreature, clear and
\* randomize leave currentBuffer and the other buffer as they were; the
\* step() of an animate() frame reads the current buffer with every paint
\* of the frame in it, writes the other buffer, and the painted field stays
\* in the buffer that was read.
C18_EditsSerialised ==
    [][/\ (engine = "Lenia"
             /\ lastOp'.op \in {"paint", "spawnCreature", "clear", "randomize"}) =>
             /\ currentBuffer' = currentBuffer
             /\ textures'[2 - currentBuffer] = textures[2 - currentBuffer]
       /\ (lastOp'.op = "animate" /\ playing) =>
             LET painted == PaintedBeforeStep(lastOp'.args)
             IN  /\ currentBuffer' = NextBuffer(currentBuffer)
                 /\ fragColor' = SimDraw(painted, uniforms',
                                         StepKernel(uniforms'.R))
                 /\ textures'[currentBuffer' + 1] = StoreColors(fragColor')
                 /\ textures'[currentBuffer + 1] = painted]_vars

\* A playing demo frame after two ticks whose demo perturbation is in the
\* buffer its step() read: the cells are back at 255, which no step leaves.
C18_Witness ==
    /\ engine = "Lenia" /\ lastOp.op = "animate" /\ lastOp.args.demoPaint
    /\ demoMode /\ playing /\ ticks >= 2 /\ width > 0
    /\ \A c \in DOMAIN Tex(1 - currentBuffer) :
          Tex(1 - currentBuffer)[c] = Grey(ByteMax)
    /\ \E c \in DOMAIN Tex(currentBuffer) : Tex(currentBuffer)[c] # Grey(ByteMax)

\* C19 -- Cadence independence.  An animate() frame while playing is false
\* leaves currentBuffer and both buffers as they were; a step() call from
\* the Step button advances exactly one tick: it draws the current buffer
\* into the other one and makes that the current buffer.
C19_CadenceIndependent ==
    [][/\ (lastOp'.op = "animate" /\ ~playing) =>
             /\ currentBuffer' = currentBuffer
             /\ textures' = textures
             /\ ticks' = ticks
       /\ (lastOp'.op = "step" /\ engine = "Lenia") =>
             /\ ticks' = ticks + 1
             /\ currentBuffer' = NextBuffer(currentBuffer)
             /\ textures'[currentBuffer + 1] = Tex(currentBuffer)
             /\ textures'[currentBuffer' + 1] =
                   StoreColors(SimDraw(Tex(currentBuffer), uniforms',
                                       StepKernel(uniforms'.R)))]_vars

Densities(tex, c) == [i \in 1..3 |-> TexelValue(tex[c][i])]

\* C21 -- Interaction signs.  In every ecosystem step and every cell, the
\* term species j adds to species i is a loss (never positive) where
\* INTERACTION_MATRIX[i][j] < 0, a gain (never negative) where it is > 0 and
\* absent where it is 0, the diagonal included; it vanishes when either
\* density of the cell is 0 and does not when their product is at least
\* 0.001.  The result follows: prey never ends above, apex never below, the
\* value the step gives without interaction, and a cell without predator
\* leaves prey and apex at that value whatever the neighbouring cells hold.
C21_InteractionSigns ==
    [][(lastOp'.op = "step" /\ engine = "LeniaEcosystem") =>
          \A c \in DOMAIN Tex(currentBuffer) :
             LET d == Densities(Tex(currentBuffer), c)
                 u == uniforms'
                 alone == EcoFragment(Tex(currentBuffer), c, NoInteraction(u),
                                      EcoStepKernel(u.R))
             IN  /\ \A i \in 1..3, j \in 1..3 :
                       LET term == Interaction(i, j, d, u)
                           m == INTERACTION_MATRIX[i][j]
                       IN  /\ m < 0 => term <= 0
                           /\ m > 0 => term >= 0
                           /\ m = 0 => term = 0
                           /\ (d[i] = 0 \/ d[j] = 0) => term = 0
                           /\ (m # 0 /\ MulMicro(d[i], d[j]) >= Milli) => term # 0
                 /\ fragColor'[c][1] <= alone[1]
                 /\ fragColor'[c][3] >= alone[3]
                 /\ d[2] = 0 => /\ fragColor'[c][1] = alone[1]
                                /\ fragColor'[c][3] = alone[3]]_vars

\* An ecosystem step has run on a field with a cell that holds prey,
\* predator and apex at once, each above 0.1: all four terms act there.
C21_Witness ==
    /\ engine = "LeniaEcosystem" /\ lastOp.op = "step" /\ width > 0
    /\ \E c \in DOMAIN Tex(1 - currentBuffer) :
          LET d == Densities(Tex(1 - currentBuffer), c)
          IN  /\ \A i \in 1..3 : d[i] > Micro \div 10
              /\ Interaction(1, 2, d, uniforms) < 0
              /\ Interaction(2, 1, d, uniforms) > 0
              /\ Interaction(2, 3, d, uniforms) < 0
              /\ Interaction(3, 2, d, uniforms) > 0

\* C22 -- Trail factor.  Every step() of the single-species engine sets
\* u_trail to trailAmount when trailEnabled and to 1.0 otherwise, and every
\* cell of the frame drawn is clamp(current + G * dt / T, 0, 1) times that
\* factor: the clamped value itself without trail, at most trailAmount with
\* trail.
C22_TrailFactor ==
    [][(engine = "Lenia" /\ ticks' = ticks + 1) =>
          LET tex == FieldSteppedBy(lastOp')
              u == uniforms'
              k == StepKernel(u.R)
          IN  /\ u.trail = IF trailEnabled THEN TrailAmount ELSE Milli
              /\ \A c \in DOMAIN tex :
                    LET G == growth(SimPotential(tex, c, k), u.mu, u.sigma)
                        clamped == Clamp(TexelValue(tex[c][1])
                                         + 100 * RDiv(G * u.dt, u.T), 0, Micro)
                    IN  IF trailEnabled
                        THEN /\ fragColor'[c][1] = RDiv(clamped * TrailAmount, Milli)
                             /\ fragColor'[c][1] <= TrailAmount * Milli
                             /\ textures'[currentBuffer' + 1][c][1]
                                   <= FramebufferStore(TrailAmount * Milli)
                        ELSE fragColor'[c][1] = clamped]_vars

\* A step with trail enabled has drawn a frame with a living cell that the
\* factor has lowered below the value it had.
C22_Witness ==
    /\ engine = "Lenia" /\ trailEnabled /\ lastOp.op = "step" /\ width > 0
    /\ uniforms.trail = TrailAmount
    /\ \E c \in DOMAIN fragColor :
          /\ fragColor[c][1] > 0
          /\ fragColor[c][1] = RDiv(SimFragmentUntrailed(Tex(1 - currentBuffer), c,
                                        uniforms, StepKernel(uniforms.R))
                                    * TrailAmount, Milli)
          /\ fragColor[c][1] < SimFragmentUntrailed(Tex(1 - currentBuffer), c,
                                   uniforms, StepKernel(uniforms.R))

FramesBut(rec) == SelectSeq(frames, LAMBDA f : f.rec # rec)

\* C29 -- Recording and export do not interfere.  The end of the export of a
\* recording (its 'finished' callback, or exportFrames()) removes from
\* frames the frames of that recording only: the frames captured for a
\* recording started meanwhile stay in frames, in order.
C29_ExportKeepsNewFrames ==
    [][lastOp'.op \in {"finished", "exportFrames"} =>
          frames' = FramesBut(lastOp'.args)]_vars

\* C24 -- Cap on savePreset.  savePreset(id, params) on a gallery of
\* maxPresets or more entries throws 'Maximum 20 presets reached' when id is
\* not among the entries, and then leaves the mapping and the stored copy as
\* they were; when id is among the entries it does not throw, the entry of
\* id becomes params, the other entries stay and so does their number.
C24_SaveAtCap ==
    [][lastOp'.op = "savePreset" =>
          LET id == lastOp'.args.id
              result == lastOp'.args.result
          IN  /\ (Cardinality(DOMAIN presets) >= MaxPresets
                  /\ id \notin DOMAIN presets) =>
                    /\ result = Threw(<<"Maximum ", 20, " presets reached">>)
                    /\ presets' = presets
                    /\ storage' = storage
              /\ id \in DOMAIN presets =>
                    /\ ~result.thrown
                    /\ DOMAIN presets' = DOMAIN presets
                    /\ presets' = [presets EXCEPT ![id] = lastOp'.args.params]
                    /\ storage' = Stringify(presets')]_vars

\* C25 -- Preset cap invariant.  The gallery never holds more than maxPresets
\* presets.
C25_PresetCap == Cardinality(DOMAIN presets) <= MaxPresets

\* C26 -- Mutation-mode consistency.  In every state of the single-species
\* engine mutationMode is true exactly when mutatedParams is not null.
C26_MutationModeConsistent ==
    engine = "Lenia" => (mutationMode <=> mutatedParams # <<>>)

\* Mutation mode is on with a working copy after a step() has mutated it and
\* another species was selected.
C26_Witness ==
    /\ engine = "Lenia" /\ lastOp.op = "selectSpecies" /\ ticks > 0
    /\ mutationMode /\ mutatedParams # <<>>
    /\ UniformParams(uniforms) = mutatedParams[1]
    /\ mutatedParams[1] # SPECIES[currentSpecies]

C28_SpeedBound ==
    [][/\ timeScale' >= 100 /\ timeScale' <= 5000
       /\ ticks' = ticks + 1 => uniforms'.dt = timeScale]_vars

\* The same for the calls whose scale is a number: timeScale is NaN or within
\* the bounds.
C28_SpeedBoundOfNumbers ==
    [][/\ timeScale' = NaN \/ (timeScale' >= 100 /\ timeScale' <= 5000)
       /\ (lastOp'.op = "setSpeed" /\ lastOp'.args # NaN) => timeScale' # NaN
       /\ (lastOp'.op = "key" /\ timeScale # NaN) => timeScale' # NaN
       /\ ticks' = ticks + 1 => uniforms'.dt = timeScale]_vars

\* C30 -- Beat throttling.  An animate() frame paints the beat perturbation
\* only when audioReactiveEnabled is true and more than 150 ms have passed
\* since the beat perturbation before it; an update() sets isBeat to true
\* only when more than beatHoldTime = 100 ms have passed since the update()
\* before it that did; and a frame with audioReactiveEnabled false paints no
\* beat perturbation and calls no update().
C30_BeatThrottling ==
    [][(lastOp'.op = "animate" /\ engine = "Lenia") =>
          /\ lastOp'.args.beat =>
                /\ audioReactiveEnabled
                /\ sincePerturb > 150
                /\ sincePerturb' = 0
          /\ (audioReactiveEnabled /\ isBeat') =>
                /\ sinceBeat > 100
                /\ sinceBeat' = 0
          /\ ~audioReactiveEnabled =>
                /\ ~lastOp'.args.beat
                /\ UNCHANGED beatVars
          /\ ~lastOp'.args.beat =>
                textures'[currentBuffer + 1] = textures[currentBuffer + 1]]_vars

\* A frame of the paused engine with audio reactivity on: update() has
\* detected a beat more than 100 ms after the one before, and
\* applyAudioEffects() has painted the beat perturbation, more than 150 ms
\* after the one before.
C30_Witness ==
    /\ engine = "Lenia" /\ lastOp.op = "animate" /\ lastOp.args.beat
    /\ audioReactiveEnabled /\ isBeat
    /\ sincePerturb = 0 /\ sinceBeat = 0
    /\ ~playing

====
